---- MODULE Spec2Model ----
(***************************************************************************)
(* Time-partitioned label store of prometheus-labels-db: the write path    *)
(* (RecordMetric), the query path (QueryMetrics) and the partition         *)
(* functions they share, modelled from internal/database and               *)
(* internal/model.                                                         *)
(*                                                                         *)
(* Time is counted in ticks.  One tick stands for the code's one-second    *)
(* resolution (time.Second, Unix()); a partition window is                 *)
(* PartitionInterval ticks wide.  Text (namespace, metric name, region,    *)
(* dimension names and values, JSON) is a sequence of one-character        *)
(* strings, so that concatenation and serialisation are computed.          *)
(***************************************************************************)
EXTENDS Integers, Sequences, FiniteSets, TLC

VARIABLES
    db,           \* the partition files on disk: suffix -> committed content
    dbs,          \* LabelDB.db: the dbPath keys of the open handles
    lastUsed,     \* LabelDB.lastUsed: suffix -> time of the last getDB
    initialized,  \* LabelDB.initialized: lifetime-table suffixes known to exist
    now,          \* the wall clock (time.Now().Unix())
    last,         \* the last RecordMetric call, with what it returned
    query,        \* the last QueryMetrics call, with what it returned
    written,      \* history: per (partition, identity) the hull of the committed sub-ranges
    nOps,         \* number of calls made so far
    house,        \* the last CleanupUnusedDB call
    resp,         \* the last /api/v1/series request, with its response
    metricsCh,    \* the ingest queue: the buffered metrics
    closed,       \* whether the ingest queue is closed
    recorder,     \* the recorder goroutine: where it is, with its loop variables
    done,         \* Recorder.done is closed
    stop,         \* the caller of Recorder.Stop: "idle", "waiting", "returned"
    sent,         \* history: the metrics enqueued, in order
    handled,      \* history: the metrics passed to RecordMetric, in order
    family,       \* which identities and calls the callers submit: "base" or "wide";
                  \* "crowded": the base ones, on a store whose memo is full
    calc,         \* the last call of a method of model.Metric, with its result
    task,         \* the query process: its handler and its cleanup goroutine
    scraper       \* the scraper goroutines of the recorder process, and its stop()

recVars == <<metricsCh, closed, recorder, done, stop, sent, handled>>

\* What no call on the store changes.
envVars == <<family, calc, task, scraper>>

\* The LabelDB and the calls on it.
storeVars == <<db, dbs, lastUsed, initialized, now, last, query, written, nOps, house, resp>>

vars == <<db, dbs, lastUsed, initialized, now, last, query, written, nOps,
          house, resp, recVars, envVars>>

-----------------------------------------------------------------------------
(* Bounds of the model. *)

MaxTime == 7      \* timestamps of metrics and query windows are 0..MaxTime
MaxNow == 1       \* the wall clock runs 0..MaxNow
MaxOps == 2       \* calls made on one LabelDB
WideOps == 4      \* calls made on one LabelDB by callers of the second family
MaxBackward == 1  \* a submitted [from, to] has to >= from - MaxBackward

(* Program constants, in ticks. *)

PartitionInterval == 3
\* time.Truncate rounds down relative to Go's zero time, not to the Unix
\* epoch: the Unix epoch lies EpochOffset into a partition window.
EpochOffset == 1

Times == 0..MaxTime

Min(a, b) == IF a <= b THEN a ELSE b
Max(a, b) == IF a >= b THEN a ELSE b

-----------------------------------------------------------------------------
(* Text. *)

\* Characters in byte order.
Alphabet == <<"/", "_", "a", "b", "d", "e", "m", "n", "r", "v">>

CharRank(c) == CHOOSE i \in 1..Len(Alphabet) : Alphabet[i] = c

RECURSIVE TextLess(_, _)
\* Go's < on strings: lexicographic by byte.
TextLess(a, b) ==
    IF b = <<>> THEN FALSE
    ELSE IF a = <<>> THEN TRUE
    ELSE IF Head(a) = Head(b) THEN TextLess(Tail(a), Tail(b))
    ELSE CharRank(Head(a)) < CharRank(Head(b))

RECURSIVE Join(_, _)
\* strings.Join
Join(parts, sep) ==
    IF parts = <<>> THEN <<>>
    ELSE IF Len(parts) = 1 THEN parts[1]
    ELSE parts[1] \o sep \o Join(Tail(parts), sep)

RECURSIVE ReplaceAll(_, _, _)
\* strings.ReplaceAll for a one-character old and new
ReplaceAll(s, old, new) ==
    IF s = <<>> THEN <<>>
    ELSE <<IF Head(s) = old THEN new ELSE Head(s)>> \o ReplaceAll(Tail(s), old, new)

NameLabel == <<"_", "_", "n", "a", "m", "e", "_", "_">>   \* "__name__"

-----------------------------------------------------------------------------
(* model.Metric and its dimensions. *)

RECURSIVE InsertSorted(_, _)
InsertSorted(d, ds) ==
    IF ds = <<>> THEN <<d>>
    ELSE IF TextLess(d.Name, Head(ds).Name) THEN <<d>> \o ds
    ELSE <<Head(ds)>> \o InsertSorted(d, Tail(ds))

RECURSIVE SortByName(_)
\* sort.Slice(ds, func(i, j) { return ds[i].Name < ds[j].Name })
SortByName(ds) ==
    IF ds = <<>> THEN <<>> ELSE InsertSorted(Head(ds), SortByName(Tail(ds)))

RECURSIVE DimPairs(_)
DimPairs(ds) ==
    IF ds = <<>> THEN <<>>
    ELSE LET d == Head(ds) IN
         (IF d.Name = NameLabel THEN <<>>
          ELSE << <<"\"">> \o d.Name \o <<"\"", ":", " ", "\"">> \o d.Value \o <<"\"">> >>)
         \o DimPairs(Tail(ds))

\* A faulty variant of MarshalJSON: the pairs are written in the order given.
MarshalJSONUnsorted(ds) == <<"{">> \o Join(DimPairs(ds), <<",", " ">>) \o <<"}">>

\* Dimensions.MarshalJSON: sorted by name, "__name__" skipped.
MarshalJSON(ds) == <<"{">> \o Join(DimPairs(SortByName(ds)), <<",", " ">>) \o <<"}">>

RECURSIVE DropNameLabel(_)
DropNameLabel(ds) ==
    IF ds = <<>> THEN <<>>
    ELSE (IF Head(ds).Name = NameLabel THEN <<>> ELSE <<Head(ds)>>) \o DropNameLabel(Tail(ds))

RECURSIVE KeyOfDims(_)
KeyOfDims(ds) == IF ds = <<>> THEN <<>> ELSE Head(ds).Name \o Head(ds).Value \o KeyOfDims(Tail(ds))

\* Metric.UniqueKey: namespace, metric name, region, then every dimension's
\* name and value in name order, concatenated.
UniqueKey(m) == m.Namespace \o m.MetricName \o m.Region \o KeyOfDims(SortByName(m.Dimensions))

-----------------------------------------------------------------------------
(* The identities the model records. *)

Dim(n, v) == [Name |-> n, Value |-> v]

Ident(ns, n, r, ds) == [Namespace |-> ns, MetricName |-> n, Region |-> r, Dimensions |-> ds]

Idents ==
    { Ident(<<"a">>, <<"m">>, <<"r">>, <<Dim(<<"d">>, <<"v">>)>>),
      Ident(<<"a">>, <<"n">>, <<"r">>, <<>>) }

\* A second family of identities: a namespace with "/" and the one that
\* differs from it by "_" alone, a metric name that is not a safe one and the
\* name it is made safe to, and dimension lists that differ in order, in a
\* dimension named "__name__", and in an empty or absent dimension.
TextAB == <<"a", "/", "b">>
TextA_B == <<"a", "_", "b">>
TextSlashM == <<"/", "m">>
Text_M == <<"_", "m">>

WideIdents ==
    { Ident(TextAB, TextSlashM, <<"r">>, <<Dim(<<"b">>, <<"v">>), Dim(<<"d">>, <<"v">>)>>),
      Ident(TextAB, TextSlashM, <<"r">>, <<Dim(<<"d">>, <<"v">>), Dim(<<"b">>, <<"v">>)>>),
      Ident(TextAB, TextSlashM, <<"r">>,
            <<Dim(<<"b">>, <<"v">>), Dim(NameLabel, <<"m">>), Dim(<<"d">>, <<"v">>)>>),
      Ident(TextA_B, TextSlashM, <<"r">>, <<Dim(<<"b">>, <<"v">>), Dim(<<"d">>, <<"v">>)>>),
      Ident(TextAB, Text_M, <<"r">>, <<Dim(<<"d">>, <<>>)>>),
      Ident(TextAB, Text_M, <<"r">>, <<>>) }

\* The dimension lists callers submit, and their serialisations.
DimUniverse == {i.Dimensions : i \in Idents \cup WideIdents}

Serialised == [ds \in DimUniverse |-> MarshalJSON(ds)]

\* Dimensions.UnmarshalJSON, for the JSON this store writes: the pairs of
\* the object, "__name__" skipped; the order of the decoded list is that of a
\* Go map iteration, which the callers modelled here sort before use.
UnmarshalJSON(d) == DropNameLabel(CHOOSE ds \in DimUniverse : Serialised[ds] = d)

-----------------------------------------------------------------------------
(* Partitions. *)

\* getPartition: t.Truncate(PartitionInterval) and the window's last tick.
getPartition(t) ==
    LET from == t - ((t + EpochOffset) % PartitionInterval)
    IN  [From |-> from, To |-> from + PartitionInterval - 1]

\* getTableSuffix: "_" + start date + "_" + end date of t's partition.
getTableSuffix(t) == LET p == getPartition(t) IN <<p.From, p.To>>

\* getLifetimeTableSuffix
getLifetimeTableSuffix(t, namespace) == <<getTableSuffix(t), ReplaceAll(namespace, "/", "_")>>

RECURSIVE LoopPartitions(_, _)
\* getLifetimeRanges, the loop: for t := from; t.Before(to); t = t.Add(PartitionInterval)
LoopPartitions(t, to) ==
    IF t < to THEN <<getPartition(t)>> \o LoopPartitions(t + PartitionInterval, to)
    ELSE <<>>

\* getLifetimeRanges indexes partitions[0]: with no loop pass it panics.
RangesPanic(from, to) == LoopPartitions(from, to) = <<>>

\* getLifetimeRanges, when it returns.
getLifetimeRanges(from, to) ==
    LET partitions == LoopPartitions(from, to)
        first == [partitions EXCEPT ![1].From = from]
    IN  [first EXCEPT ![Len(first)].To = to]

Suffixes == {getTableSuffix(t) : t \in Times}

\* fmt.Sprintf(DbPathPattern, suffix)
DbPath(suffix) == <<"labels", suffix, ".db">>

-----------------------------------------------------------------------------
(* One partition file: the identity table metrics<suffix>, its AUTOINCREMENT *)
(* counter, and the lifetime tables metrics_lifetime<lsuffix> (one per      *)
(* namespace written to the partition).                                     *)

EmptyFile == [metrics |-> FALSE, rows |-> {}, seq |-> 0, ltables |-> {}, lifetime |-> {}]

\* A faulty variant of CreateTables: without IF NOT EXISTS, the tables are
\* made anew.
CreateTablesAnew(file, lsuffix) ==
    [file EXCEPT !.metrics = TRUE, !.rows = {}, !.ltables = @ \cup {lsuffix},
                 !.lifetime = {l \in @ : l.table # lsuffix}]

\* sql/table.sql: CREATE TABLE IF NOT EXISTS metrics<suffix>, its unique
\* index, and CREATE VIRTUAL TABLE IF NOT EXISTS metrics_lifetime<lsuffix>.
CreateTables(file, lsuffix) ==
    [file EXCEPT !.metrics = TRUE, !.ltables = @ \cup {lsuffix}]

\* The row the SELECT of recordMetricToPartition finds.
FindRow(file, metric, d) ==
    {r \in file.rows : /\ r.namespace = metric.Namespace
                       /\ r.metric_name = metric.MetricName
                       /\ r.region = metric.Region
                       /\ r.dimensions = d}

\* UPDATE metrics<suffix> SET from_timestamp, to_timestamp, updated_at WHERE metric_id = ?
UpdateRowRange(lo, hi) == [from_timestamp |-> lo, to_timestamp |-> hi]

\* A faulty variant of UpsertMetricRow: the SELECT is skipped and every write
\* inserts a fresh row.
InsertMetricRow(file, metric, tr, d, clock) ==
    LET id == file.seq + 1
        row == [metric_id |-> id,
                namespace |-> metric.Namespace,
                metric_name |-> metric.MetricName,
                region |-> metric.Region,
                dimensions |-> d,
                from_timestamp |-> tr.From,
                to_timestamp |-> tr.To,
                updated_at |-> clock]
    IN  [file |-> [file EXCEPT !.rows = @ \cup {row}, !.seq = id],
         metricID |-> id, fromTS |-> 0, toTS |-> 0]

\* A faulty variant of UpsertMetricRow: the UPDATE stores the new sub-range
\* instead of its union with the stored range.
OverwriteMetricRow(file, metric, tr, d, clock) ==
    LET found == FindRow(file, metric, d) IN
    IF found = {} THEN InsertMetricRow(file, metric, tr, d, clock)
    ELSE LET old == CHOOSE r \in found : TRUE
             new == [old EXCEPT !.from_timestamp = tr.From,
                                !.to_timestamp = tr.To,
                                !.updated_at = clock]
         IN  [file |-> [file EXCEPT !.rows = (@ \ {old}) \cup {new}],
              metricID |-> old.metric_id,
              fromTS |-> old.from_timestamp, toTS |-> old.to_timestamp]

\* A faulty variant of UpsertMetricRow: the UPDATE moves the end of the
\* stored range and leaves its start alone.
UpsertMetricRowEndOnly(file, metric, tr, d, clock) ==
    LET found == FindRow(file, metric, d) IN
    IF found = {} THEN InsertMetricRow(file, metric, tr, d, clock)
    ELSE LET old == CHOOSE r \in found : TRUE
             new == [old EXCEPT !.to_timestamp = Max(tr.To, old.to_timestamp),
                                !.updated_at = clock]
         IN  [file |-> [file EXCEPT !.rows = (@ \ {old}) \cup {new}],
              metricID |-> old.metric_id,
              fromTS |-> old.from_timestamp, toTS |-> old.to_timestamp]

\* The metrics half of recordMetricToPartition: insert when the SELECT finds no
\* row, else widen the row found.  Gives the file, the metric_id, and the range
\* scanned from the row (0, 0 when none was found).
UpsertMetricRow(file, metric, tr, d, clock) ==
    LET found == FindRow(file, metric, d) IN
    IF found = {}
    THEN LET id == file.seq + 1
             row == [metric_id |-> id,
                     namespace |-> metric.Namespace,
                     metric_name |-> metric.MetricName,
                     region |-> metric.Region,
                     dimensions |-> d,
                     from_timestamp |-> tr.From,
                     to_timestamp |-> tr.To,
                     updated_at |-> clock]
         IN  [file |-> [file EXCEPT !.rows = @ \cup {row}, !.seq = id],
              metricID |-> id, fromTS |-> 0, toTS |-> 0]
    ELSE LET old == CHOOSE r \in found : TRUE
             rng == UpdateRowRange(Min(tr.From, old.from_timestamp), Max(tr.To, old.to_timestamp))
             new == [old EXCEPT !.from_timestamp = rng.from_timestamp,
                                !.to_timestamp = rng.to_timestamp,
                                !.updated_at = clock]
         IN  [file |-> [file EXCEPT !.rows = (@ \ {old}) \cup {new}],
              metricID |-> old.metric_id,
              fromTS |-> old.from_timestamp, toTS |-> old.to_timestamp]

\* A faulty variant of UpsertLifetime: INSERT OR IGNORE alone, without the
\* UPDATE that follows when no row was inserted.
UpsertLifetimeIgnore(file, ls, metricID, tr, fromTS, toTS) ==
    LET have == {l \in file.lifetime : l.table = ls /\ l.metric_id = metricID} IN
    IF have = {}
    THEN [file EXCEPT !.lifetime = @ \cup
            {[table |-> ls, metric_id |-> metricID,
              from_timestamp |-> tr.From, to_timestamp |-> tr.To]}]
    ELSE file

\* The metrics_lifetime half: INSERT OR IGNORE, and when no row was inserted
\* an UPDATE with the union of tr and the range scanned from the metrics row.
UpsertLifetime(file, ls, metricID, tr, fromTS, toTS) ==
    LET have == {l \in file.lifetime : l.table = ls /\ l.metric_id = metricID} IN
    IF have = {}
    THEN [file EXCEPT !.lifetime = @ \cup
            {[table |-> ls, metric_id |-> metricID,
              from_timestamp |-> tr.From, to_timestamp |-> tr.To]}]
    ELSE [file EXCEPT !.lifetime = (@ \ have) \cup
            {[table |-> ls, metric_id |-> metricID,
              from_timestamp |-> Min(tr.From, fromTS),
              to_timestamp |-> Max(tr.To, toTS)]}]

\* recordMetricToPartition, inside the transaction: [err, file].  A statement
\* on a table that does not exist fails; stmtFails is a failure of the store
\* (I/O, cancellation) at some statement.
recordMetricToPartition(file, metric, tr, clock, stmtFails) ==
    LET d == MarshalJSON(metric.Dimensions)
        ls == getLifetimeTableSuffix(tr.From, metric.Namespace)
    IN  IF ~file.metrics \/ stmtFails THEN [err |-> "error", file |-> file]
        ELSE LET m == UpsertMetricRow(file, metric, tr, d, clock) IN
             IF ls \notin file.ltables THEN [err |-> "error", file |-> file]
             ELSE [err |-> "nil",
                   file |-> UpsertLifetime(m.file, ls, m.metricID, tr, m.fromTS, m.toTS)]

\* lru.New(InitCacheSize): the entries the memo holds.  A store that serves
\* more (partition, namespace) pairs than that is modelled with a memo of one
\* entry.
InitCacheSize == 1000

CacheSize == IF family = "crowded" THEN 1 ELSE InitCacheSize

\* initialized.Add: a full memo drops its least recently used entry, which
\* for the memo of one entry is the entry it holds.
Add(memo, lsuffix) ==
    IF Cardinality(memo) < CacheSize THEN memo \cup {lsuffix}
    ELSE (memo \ {CHOOSE e \in memo : TRUE}) \cup {lsuffix}

\* History of a call: whether init issued the DDL for tables that existed.
Reissued(file, lsuffix, i) ==
    IF i.issued /\ file.metrics /\ lsuffix \in file.ltables THEN {lsuffix} ELSE {}

\* LabelDB.init, inside the transaction: [err, file, initialized, issued].
init(file, memo, t, namespace, ddlFails) ==
    LET lsuffix == getLifetimeTableSuffix(t, namespace) IN
    IF lsuffix \in memo
    THEN [err |-> "nil", file |-> file, initialized |-> memo, issued |-> FALSE]
    ELSE IF ddlFails
    THEN [err |-> "error", file |-> file, initialized |-> memo, issued |-> FALSE]
    ELSE [err |-> "nil", file |-> CreateTables(file, lsuffix),
          initialized |-> Add(memo, lsuffix), issued |-> TRUE]

\* getDB: stamps lastUsed[suffix] and caches a handle under the dbPath.
getDB(S, t) ==
    LET suffix == getTableSuffix(t) IN
    [S EXCEPT !.lastUsed = [k \in DOMAIN @ \cup {suffix} |->
                                IF k = suffix THEN S.clock ELSE @[k]],
              !.dbs = @ \cup {DbPath(suffix)}]

\* The identity a row or a metric stands for.
IdentityOf(m) ==
    [Namespace |-> m.Namespace, MetricName |-> m.MetricName, Region |-> m.Region,
     Dimensions |-> SortByName(DropNameLabel(m.Dimensions))]

\* History: the hull of the sub-ranges committed for (suffix, identity).
NoteWritten(w, suffix, id, tr) ==
    LET k == <<suffix, id>> IN
    [x \in DOMAIN w \cup {k} |->
        IF x # k THEN w[x]
        ELSE IF k \in DOMAIN w
             THEN [From |-> Min(w[k].From, tr.From), To |-> Max(w[k].To, tr.To)]
             ELSE [From |-> tr.From, To |-> tr.To]]

\* A faulty variant of WriteSubRange: the DDL of init runs outside the
\* transaction and stays when the write fails.
WriteSubRangeUnrolled(S, metric, tr, fail) ==
    LET suffix == getTableSuffix(tr.From)
        i == init(S.db[suffix], S.initialized, tr.From, metric.Namespace, fail = "ddl")
    IN  IF i.err # "nil" THEN [err |-> i.err, S |-> S]
        ELSE LET r == recordMetricToPartition(i.file, metric, tr, S.clock, fail = "stmt")
                 S1 == [S EXCEPT !.initialized = i.initialized,
                                 !.reissued = @ \cup
                                    Reissued(S.db[suffix],
                                             getLifetimeTableSuffix(tr.From, metric.Namespace), i)]
             IN  IF r.err # "nil" THEN [err |-> r.err, S |-> [S1 EXCEPT !.db[suffix] = i.file]]
                 ELSE [err |-> "nil",
                       S |-> [S1 EXCEPT !.db[suffix] = r.file,
                                        !.written = NoteWritten(@, suffix, IdentityOf(metric), tr)]]

\* withTx around init and recordMetricToPartition for one sub-range: commit
\* when both succeed, roll the file back otherwise.  The memo is not part of
\* the transaction.
WriteSubRange(S, metric, tr, fail) ==
    LET suffix == getTableSuffix(tr.From)
        i == init(S.db[suffix], S.initialized, tr.From, metric.Namespace, fail = "ddl")
    IN  IF i.err # "nil" THEN [err |-> i.err, S |-> S]
        ELSE LET r == recordMetricToPartition(i.file, metric, tr, S.clock, fail = "stmt")
                 S1 == [S EXCEPT !.initialized = i.initialized,
                                 !.reissued = @ \cup
                                    Reissued(S.db[suffix],
                                             getLifetimeTableSuffix(tr.From, metric.Namespace), i)]
             IN  IF r.err # "nil" THEN [err |-> r.err, S |-> S1]
                 ELSE [err |-> "nil",
                       S |-> [S1 EXCEPT !.db[suffix] = r.file,
                                        !.written = NoteWritten(@, suffix, IdentityOf(metric), tr)]]

RECURSIVE RecordLoop(_, _, _, _, _)
\* RecordMetric, the loop over the sub-ranges from the i-th on.  fail names
\* the sub-range at which the store fails, and how ("begin": BeginTx;
\* "ddl": the DDL of init; "stmt": a statement or the commit).
RecordLoop(S, metric, trs, i, fail) ==
    IF i > Len(trs) THEN [err |-> "nil", S |-> S]
    ELSE LET S1 == getDB(S, trs[i].From)
             f == IF fail.at = i THEN fail.kind ELSE "none"
         IN  IF f = "begin" THEN [err |-> "error", S |-> S1]
             ELSE LET w == WriteSubRange(S1, metric, trs[i], f) IN
                  IF w.err # "nil" THEN w
                  ELSE RecordLoop(w.S, metric, trs, i + 1, fail)

\* A faulty variant of RecordMetric: the interval is not validated.
RecordMetricUnvalidated(S, metric, fail) ==
    IF RangesPanic(metric.FromTS, metric.ToTS) THEN [err |-> "panic", S |-> S]
    ELSE RecordLoop(S, metric, getLifetimeRanges(metric.FromTS, metric.ToTS), 1, fail)

\* RecordMetric: [err, S].
RecordMetricResult(S, metric, fail) ==
    IF metric.ToTS < metric.FromTS THEN [err |-> "invalid", S |-> S]
    ELSE IF RangesPanic(metric.FromTS, metric.ToTS) THEN [err |-> "panic", S |-> S]
    ELSE RecordLoop(S, metric, getLifetimeRanges(metric.FromTS, metric.ToTS), 1, fail)

Store == [db |-> db, dbs |-> dbs, lastUsed |-> lastUsed, initialized |-> initialized,
          written |-> written, clock |-> now, reissued |-> {}]

\* The intervals submitted, as lifetimes and as query windows.
Intervals == {w \in Times \X Times : w[2] >= w[1] - MaxBackward}

Metrics == {[Namespace |-> i.Namespace, MetricName |-> i.MetricName, Region |-> i.Region,
             Dimensions |-> i.Dimensions, FromTS |-> w[1], ToTS |-> w[2]] :
            i \in Idents, w \in Intervals}

\* The lifetimes and windows of the second family: inside one partition, and
\* over two.
WideIntervals == {<<0, 1>>, <<0, 4>>}

WideMetrics == {[Namespace |-> i.Namespace, MetricName |-> i.MetricName, Region |-> i.Region,
                 Dimensions |-> i.Dimensions, FromTS |-> w[1], ToTS |-> w[2]] :
                i \in WideIdents, w \in WideIntervals}

\* The metrics the callers of this run submit, and the calls they make.
Submitted == IF family = "wide" THEN WideMetrics ELSE Metrics

OpsBound == IF family = "wide" THEN WideOps ELSE MaxOps

\* Where and how the store can fail during a call: not at all, or at one of
\* the call's sub-ranges.
Failures(metric) ==
    {[at |-> 0, kind |-> "none"]} \cup
    IF family = "wide" THEN {}
    ELSE [at : 1..Len(LoopPartitions(metric.FromTS, metric.ToTS)), kind : {"begin", "ddl", "stmt"}]

-----------------------------------------------------------------------------
(* The query path. *)

NamespaceLabel == <<"N", "a", "m", "e", "s", "p", "a", "c", "e">>
MetricNameLabel == <<"M", "e", "t", "r", "i", "c", "N", "a", "m", "e">>
RegionLabel == <<"R", "e", "g", "i", "o", "n">>

Matcher(n, t, v) == [Name |-> n, Type |-> t, Value |-> v]

\* A faulty variant of ColumnOf: "__name__" is taken for a dimension name.
ColumnOfNameAsDimension(ln) ==
    CASE ln = NamespaceLabel -> "m.namespace"
      [] ln = MetricNameLabel -> "m.metric_name"
      [] ln = RegionLabel -> "m.region"
      [] OTHER -> "m.dimensions"

\* buildLabelConditions, the column a matcher name resolves to; any other
\* name is a JSON path into the dimensions column.
ColumnOf(ln) ==
    CASE ln = NamespaceLabel -> "m.namespace"
      [] ln = NameLabel -> "m.metric_name"
      [] ln = MetricNameLabel -> "m.metric_name"
      [] ln = RegionLabel -> "m.region"
      [] OTHER -> "m.dimensions"

RECURSIVE LastNamespace(_, _)
\* buildLabelConditions: namespace is the value of the last matcher named Namespace.
LastNamespace(lm, namespace) ==
    IF lm = <<>> THEN namespace
    ELSE LastNamespace(Tail(lm), IF Head(lm).Name = NamespaceLabel THEN Head(lm).Value ELSE namespace)

\* A faulty variant of buildLabelConditions: the Namespace matchers choose
\* the lifetime table and give no condition on m.namespace.
buildLabelConditionsTableOnly(lm) ==
    LET namespace == LastNamespace(lm, <<>>)
        rest == SelectSeq(lm, LAMBDA x : x.Name # NamespaceLabel)
    IN
    IF namespace = <<>> THEN [err |-> "namespace label matcher is required",
                             namespace |-> <<>>, conds |-> <<>>]
    ELSE [err |-> "nil", namespace |-> namespace,
          conds |-> [i \in 1..Len(rest) |->
                        [column |-> ColumnOf(rest[i].Name), path |-> rest[i].Name,
                         op |-> rest[i].Type, arg |-> rest[i].Value]]]

\* buildLabelConditions: [err, namespace, conds]; one condition per matcher.
buildLabelConditions(lm) ==
    LET namespace == LastNamespace(lm, <<>>) IN
    IF namespace = <<>> THEN [err |-> "namespace label matcher is required",
                             namespace |-> <<>>, conds |-> <<>>]
    ELSE [err |-> "nil", namespace |-> namespace,
          conds |-> [i \in 1..Len(lm) |->
                        [column |-> ColumnOf(lm[i].Name), path |-> lm[i].Name,
                         op |-> lm[i].Type, arg |-> lm[i].Value]]]

\* A faulty variant of DimensionValue: without IFNULL, an absent dimension
\* is not the empty text.
DimensionValueNoDefault(d, name) ==
    LET ds == UnmarshalJSON(d)
        hit == {i \in 1..Len(ds) : ds[i].Name = name}
    IN  IF hit = {} THEN <<"N", "U", "L", "L">> ELSE ds[CHOOSE i \in hit : TRUE].Value

\* IFNULL(m.dimensions->>'$.<name>', ""), on the JSON this store writes.
DimensionValue(d, name) ==
    LET ds == UnmarshalJSON(d)
        hit == {i \in 1..Len(ds) : ds[i].Name = name}
    IN  IF hit = {} THEN <<>> ELSE ds[CHOOSE i \in hit : TRUE].Value

\* The value a condition compares.
ColumnValue(row, c) ==
    CASE c.column = "m.namespace" -> row.namespace
      [] c.column = "m.metric_name" -> row.metric_name
      [] c.column = "m.region" -> row.region
      [] OTHER -> DimensionValue(row.dimensions, c.path)

RECURSIVE Contains(_, _)
\* Whether the text p occurs in the text v.
Contains(v, p) ==
    IF Len(p) > Len(v) THEN FALSE
    ELSE IF SubSeq(v, 1, Len(p)) = p THEN TRUE
    ELSE Contains(Tail(v), p)

\* v REGEXP p, for a pattern without metacharacters: the PCRE search finds
\* the pattern anywhere in the value.
RegexpMatch(v, p) == Contains(v, p)

\* One condition of the WHERE clause on a row: "= ?", "!= ?", "REGEXP ?"
\* and "NOT REGEXP ?".
CondHolds(row, c) ==
    CASE c.op = "=" -> ColumnValue(row, c) = c.arg
      [] c.op = "!=" -> ColumnValue(row, c) # c.arg
      [] c.op = "=~" -> RegexpMatch(ColumnValue(row, c), c.arg)
      [] c.op = "!~" -> ~RegexpMatch(ColumnValue(row, c), c.arg)

\* buildTimeConditions: ml.from_timestamp <= tr.To AND ml.to_timestamp >= tr.From
TimeCondHolds(ml, tr) == ml.from_timestamp <= tr.To /\ ml.to_timestamp >= tr.From

\* The SELECT of QueryMetrics on one file: the rows of metrics<s> joined to
\* metrics_lifetime<ls> on metric_id that satisfy the time and label conditions.
SelectRows(file, ls, tr, conds) ==
    {m \in file.rows :
        /\ \E ml \in file.lifetime :
              ml.table = ls /\ ml.metric_id = m.metric_id /\ TimeCondHolds(ml, tr)
        /\ \A i \in 1..Len(conds) : CondHolds(m, conds[i])}

\* The model.Metric scanned from a row; UniqueKey leaves its dimensions sorted.
ScanRow(m) ==
    [MetricID |-> m.metric_id, Namespace |-> m.namespace, MetricName |-> m.metric_name,
     Region |-> m.region, Dimensions |-> SortByName(UnmarshalJSON(m.dimensions)),
     FromTS |-> m.from_timestamp, ToTS |-> m.to_timestamp, UpdatedAt |-> m.updated_at]

\* A faulty variant of MergeRow: a row found again replaces the entry's
\* lifetime instead of widening it.
MergeRowOverwrite(result, m) ==
    LET k == UniqueKey(m) IN
    IF k \in DOMAIN result
    THEN [result EXCEPT ![k].FromTS = m.FromTS, ![k].ToTS = m.ToTS]
    ELSE [x \in DOMAIN result \cup {k} |-> IF x = k THEN m ELSE result[x]]

\* QueryMetrics, one row into the result mapping: widen the entry under the
\* row's unique key, or insert the row.
MergeRow(result, m) ==
    LET k == UniqueKey(m) IN
    IF k \in DOMAIN result
    THEN [result EXCEPT ![k].FromTS = Min(m.FromTS, @), ![k].ToTS = Max(m.ToTS, @)]
    ELSE [x \in DOMAIN result \cup {k} |-> IF x = k THEN m ELSE result[x]]

RECURSIVE MergeRows(_, _, _)
\* The rows.Next() loop, in the order ord gives the rows (SQL fixes none).
MergeRows(result, rows, ord) ==
    IF rows = {} THEN result
    ELSE LET m == CHOOSE r \in rows : \A o \in rows : ord[r.metric_id] <= ord[o.metric_id]
         IN  MergeRows(MergeRow(result, ScanRow(m)), rows \ {m}, ord)

\* LIMIT ?: at most limit of the rows, the first in the order ord.
LimitRows(rows, limit, ord) ==
    IF limit > 0
    THEN {r \in rows : Cardinality({o \in rows : ord[o.metric_id] < ord[r.metric_id]}) < limit}
    ELSE rows

\* Whether the SELECT fails with "no such table: ...".
NoSuchTable(file, ls) == ~file.metrics \/ ls \notin file.ltables

\* The check after a partition was read: whether the loop breaks.
EnoughResults(limit, result) == limit # 0 /\ Cardinality(DOMAIN result) >= limit

RECURSIVE QueryLoop(_, _, _, _, _, _, _, _, _)
\* QueryMetrics, the loop over the sub-ranges from the i-th on:
\* [err, S, result, visited].  fail names the sub-range at which the store
\* fails, and how ("query": QueryContext returns an error other than a missing
\* table; "rows": the iteration fails before it yields a row, rows.Next()
\* answers false and rows.Err() is not read).  visited lists the partitions
\* the loop has asked for.
QueryLoop(S, result, trs, i, c, limit, ord, fail, visited) ==
    IF i > Len(trs) THEN [err |-> "nil", S |-> S, result |-> result, visited |-> visited]
    ELSE LET tr == trs[i]
             S1 == getDB(S, tr.From)
             file == S1.db[getTableSuffix(tr.From)]
             ls == getLifetimeTableSuffix(tr.From, c.namespace)
             f == IF fail.at = i THEN fail.kind ELSE "none"
             seen == Append(visited, getTableSuffix(tr.From))
         IN  IF f = "query"
             THEN [err |-> "error", S |-> S1, result |-> result, visited |-> seen]
             ELSE IF NoSuchTable(file, ls)
             THEN QueryLoop(S1, result, trs, i + 1, c, limit, ord, fail, seen)
             ELSE LET rows == IF f = "rows" THEN {}
                              ELSE LimitRows(SelectRows(file, ls, tr, c.conds), limit, ord)
                      merged == MergeRows(result, rows, ord)
                  IN  IF EnoughResults(limit, merged)
                      THEN [err |-> "nil", S |-> S1, result |-> merged, visited |-> seen]
                      ELSE QueryLoop(S1, merged, trs, i + 1, c, limit, ord, fail, seen)

\* QueryMetrics: [err, S, result, visited].
QueryMetricsResult(S, from, to, lm, limit, seed, ord, fail) ==
    LET c == buildLabelConditions(lm) IN
    IF c.err # "nil"
    THEN [err |-> c.err, S |-> S, result |-> seed, visited |-> <<>>]
    ELSE IF RangesPanic(from, to)
    THEN [err |-> "panic", S |-> S, result |-> seed, visited |-> <<>>]
    ELSE QueryLoop(S, seed, getLifetimeRanges(from, to), 1, c, limit, ord, fail, <<>>)

\* The matcher lists, limits and seed mappings the model queries with.
TextA == <<"a">>
TextM == <<"m">>
TextD == <<"d">>
TextV == <<"v">>

MatcherLists ==
    { <<Matcher(NamespaceLabel, "=", TextA)>>,
      <<Matcher(NamespaceLabel, "=", TextA), Matcher(NameLabel, "=", TextM)>>,
      <<Matcher(NamespaceLabel, "=", TextA), Matcher(TextD, "!=", TextV)>>,
      <<Matcher(NameLabel, "=", TextM)>>,
      <<Matcher(NamespaceLabel, "=", <<>>)>>,
      <<Matcher(NamespaceLabel, "!=", TextA)>>,
      <<Matcher(NamespaceLabel, "=~", TextA)>>,
      <<Matcher(NamespaceLabel, "!~", TextA)>>,
      <<Matcher(NamespaceLabel, "=", TextA), Matcher(NamespaceLabel, "=", TextA)>> }

\* A mapping the caller already holds: the first identity, seen at SeedTime.
SeedTime == 3

SeedMetric ==
    [MetricID |-> 0, Namespace |-> TextA, MetricName |-> TextM, Region |-> <<"r">>,
     Dimensions |-> <<Dim(TextD, TextV)>>, FromTS |-> SeedTime, ToTS |-> SeedTime,
     UpdatedAt |-> 0]

Seeds == {<<>>, [k \in {UniqueKey(SeedMetric)} |-> SeedMetric]}

\* The calls made: every matcher list; the limits and seeds; and calls during
\* which the store fails.
QueryArgs ==
    [lm : MatcherLists, limit : {0}, seed : {<<>>}, faulty : {FALSE}]
    \cup [lm : {<<Matcher(NamespaceLabel, "=", TextA)>>}, limit : {0, 1, -1}, seed : Seeds,
          faulty : {FALSE}]
    \cup [lm : {<<Matcher(NamespaceLabel, "=", TextA)>>}, limit : {0}, seed : {<<>>},
          faulty : {TRUE}]

\* The windows of the calls: every interval for the selectors with one
\* Namespace equality and a limit that is not negative on a working store, and
\* for the other calls a window inside one partition, one over two, one over
\* three, and a point.
FewWindows == {<<0, 1>>, <<0, 4>>, <<0, 7>>, <<1, 1>>}

QueryWindows(a) ==
    IF /\ ~a.faulty
       /\ a.limit >= 0
       /\ \A i \in 1..Len(a.lm) :
             a.lm[i].Name = NamespaceLabel => (i = 1 /\ a.lm[i].Type = "=" /\ a.lm[i].Value # <<>>)
    THEN Intervals
    ELSE FewWindows

\* Where and how the store can fail during a query: not at all, or at one of
\* the window's sub-ranges.
QueryFailures(from, to, faulty) ==
    IF faulty
    THEN [at : 1..Len(LoopPartitions(from, to)), kind : {"query", "rows"}]
    ELSE {[at |-> 0, kind |-> "none"]}

\* The orders in which a SELECT can return rows, by metric_id.
RowIds == 1..Cardinality(Idents)

Orders == {o \in [RowIds -> RowIds] : \A x, y \in RowIds : x # y => o[x] # o[y]}

\* The calls of the second family, all with limit 0 and no seed: the two
\* namespaces alone; the first with a matcher on "__name__" or on
\* "MetricName", of every operator, for the name that is a safe one and for
\* the text both names contain; and the first with a matcher on the dimension
\* d, equal or not equal to the empty text.
WideMatcherLists ==
    { <<Matcher(NamespaceLabel, "=", TextAB)>>, <<Matcher(NamespaceLabel, "=", TextA_B)>> }
    \cup { <<Matcher(NamespaceLabel, "=", TextAB), Matcher(n, t, v)>> :
             n \in {NameLabel, MetricNameLabel}, t \in {"=", "!=", "=~", "!~"},
             v \in {Text_M, TextM} }
    \cup { <<Matcher(NamespaceLabel, "=", TextAB), Matcher(TextD, t, <<>>)>> : t \in {"=", "!="} }

WideQueryArgs == [lm : WideMatcherLists, limit : {0}, seed : {<<>>}, faulty : {FALSE}]

\* With limit 0 the order of the rows decides nothing: metric_id order.
WideOrder == [i \in 1..WideOps |-> i]

\* The queries the callers of this run make.
Asked == IF family = "wide" THEN WideQueryArgs ELSE QueryArgs

\* Without a LIMIT every row is merged and the order of the rows decides
\* nothing, so one order stands for all.
AskedOrders(a) ==
    IF family = "wide" THEN {WideOrder}
    ELSE IF a.limit = 0 THEN {[x \in RowIds |-> x]}
    ELSE Orders

AskedWindows(a) == IF family = "wide" THEN WideIntervals ELSE QueryWindows(a)

-----------------------------------------------------------------------------
\* A LabelDB just opened on an empty directory, a recorder just started; f
\* names what the callers will submit.
\* The query process before its first request: no handler runs, and the
\* cleanup goroutine waits for its ticker.  held is the handle the handler
\* has from getDB, if any, and open whether it has not been closed.
HandlerIdle == [pc |-> "idle", trs |-> <<>>, i |-> 0, held |-> {}, open |-> TRUE,
                err |-> "nil"]

CleanerIdle == [pc |-> "wait", todo |-> {}]

\* The scrapers of the recorder process, one for each target.
NumScrapers == 2

Scrapers == 1..NumScrapers

\* A scraper after Run(): its goroutine is about to enter scrape for its
\* namespace, with a new paginator, which has a page to fetch.  cancelled is
\* ctx.Done(), more is paginator.HasMorePages(), fetched the pages fetched by
\* the goroutine so far, batch the metrics of the page in hand that are not
\* sent yet, warnings the lowest bit of scrapeWarningsTotal.
ScraperStarted ==
    [pc |-> "wait", cancelled |-> FALSE, more |-> TRUE, fetched |-> 0, batch |-> <<>>,
     warnings |-> 0]

InitOf(f) ==
    /\ family = f
    /\ calc = [op |-> "none"]
    /\ db = [s \in Suffixes |-> EmptyFile]
    /\ dbs = {}
    /\ lastUsed = <<>>
    /\ initialized = {}
    /\ now = 0
    /\ last = [op |-> "none"]
    /\ query = [op |-> "none"]
    /\ written = <<>>
    /\ nOps = 0
    /\ house = [op |-> "none"]
    /\ resp = [op |-> "none"]
    /\ metricsCh = <<>>
    /\ closed = FALSE
    /\ recorder = [pc |-> "select", i |-> 0, attempts |-> <<>>]
    /\ done = FALSE
    /\ stop = "idle"
    /\ sent = <<>>
    /\ handled = <<>>
    /\ task = [handler |-> HandlerIdle, cleaner |-> CleanerIdle, crashed |-> FALSE,
               requests |-> 0, cleanups |-> 0]
    /\ scraper = [tasks |-> [id \in Scrapers |-> ScraperStarted],
                  stopper |-> [pc |-> "run", i |-> 1], panicked |-> FALSE]

Init == InitOf("base")

\* LabelDB.RecordMetric
\* History kept with a call: how it ended ("partial": it failed after it
\* had changed the store), and how the call before it ended when that one
\* recorded the same metric.
Outcome(S, r) == IF r.err = "error" /\ r.S.db # S.db THEN "partial" ELSE r.err

Before(metric) ==
    IF last.op = "RecordMetric" /\ last.metric = metric THEN last.outcome ELSE "other"

RecordMetric ==
    /\ nOps < OpsBound
    /\ query.op = "none"
    /\ \E metric \in Submitted :
       \E fail \in Failures(metric) :
       \E r \in {RecordMetricResult(Store, metric, fail)} :
         /\ db' = r.S.db
         /\ dbs' = r.S.dbs
         /\ lastUsed' = r.S.lastUsed
         /\ initialized' = r.S.initialized
         /\ written' = r.S.written
         /\ last' = [op |-> "RecordMetric", metric |-> metric, err |-> r.err,
                     outcome |-> Outcome(Store, r), before |-> Before(metric),
                     reissued |-> r.S.reissued]
    /\ nOps' = nOps + 1
    /\ UNCHANGED <<envVars, now, query, house, resp, recVars>>

\* LabelDB.QueryMetrics
QueryMetrics ==
    /\ nOps < OpsBound
    /\ query.op = "none"
    /\ \E a \in Asked :
       \E ord \in AskedOrders(a), w \in AskedWindows(a) :
       \E fail \in QueryFailures(w[1], w[2], a.faulty) :
       \E r \in {QueryMetricsResult(Store, w[1], w[2], a.lm, a.limit, a.seed, ord, fail)} :
         /\ dbs' = r.S.dbs
         /\ lastUsed' = r.S.lastUsed
         /\ query' = [op |-> "QueryMetrics", from |-> w[1], to |-> w[2], lm |-> a.lm,
                      limit |-> a.limit, seed |-> a.seed, fail |-> fail,
                      result |-> r.result, visited |-> r.visited, err |-> r.err]
    /\ nOps' = nOps + 1
    /\ UNCHANGED <<envVars, db, initialized, written, now, last, house, resp, recVars>>

\* The wall clock advances.
Tick ==
    /\ now < MaxNow
    /\ now' = now + 1
    /\ UNCHANGED <<envVars, db, dbs, lastUsed, initialized, last, query, written, nOps,
                   house, resp, recVars>>

\* The write path: the calls of the recorder's LabelDB.
Next == RecordMetric \/ Tick

\* Writes and a query by callers of the second family, the clock standing
\* still.
InitW == InitOf("wide")

NextW == RecordMetric \/ QueryMetrics

SpecW == InitW /\ [][NextW]_vars

\* The write path on a store whose memo is full.
InitE == InitOf("crowded")

SpecE == InitE /\ [][Next]_vars

-----------------------------------------------------------------------------
(* The methods of model.Metric that touch no store. *)

\* The characters of [a-zA-Z0-9_:].
Digits == {"0", "1", "2", "3", "4", "5", "6", "7", "8", "9"}

NameCharacters ==
    {"a", "b", "c", "d", "e", "f", "g", "h", "i", "j", "k", "l", "m",
     "n", "o", "p", "q", "r", "s", "t", "u", "v", "w", "x", "y", "z",
     "A", "B", "C", "D", "E", "F", "G", "H", "I", "J", "K", "L", "M",
     "N", "O", "P", "Q", "R", "S", "T", "U", "V", "W", "X", "Y", "Z",
     "_", ":"} \cup Digits

\* invalidMetricNamePattern.ReplaceAllString(name, "_")
ReplaceInvalid(name) ==
    [i \in 1..Len(name) |-> IF name[i] \in NameCharacters THEN name[i] ELSE "_"]

\* A faulty variant of safeMetricName: a leading digit is kept.
safeMetricNameKeepDigit(name) == IF Len(name) = 0 THEN <<>> ELSE ReplaceInvalid(name)

\* safeMetricName
safeMetricName(name) ==
    IF Len(name) = 0 THEN <<>>
    ELSE LET replaced == ReplaceInvalid(name) IN
         IF replaced[1] \in Digits THEN <<"_">> \o Tail(replaced) ELSE replaced

RECURSIVE PutDimensions(_, _)
\* Metric.Labels, the loop: labels[d.Name] = d.Value for each dimension in turn.
PutDimensions(labels, ds) ==
    IF ds = <<>> THEN labels
    ELSE PutDimensions([x \in DOMAIN labels \cup {Head(ds).Name} |->
                           IF x = Head(ds).Name THEN Head(ds).Value ELSE labels[x]],
                       Tail(ds))

\* Metric.Labels
Labels(a) ==
    PutDimensions([x \in {NameLabel, MetricNameLabel, NamespaceLabel, RegionLabel} |->
                      CASE x = NameLabel -> safeMetricName(a.MetricName)
                        [] x = MetricNameLabel -> a.MetricName
                        [] x = NamespaceLabel -> a.Namespace
                        [] x = RegionLabel -> a.Region],
                  a.Dimensions)

\* The metrics whose keys are compared: namespaces and names that join to
\* the same text, dimension lists in two orders, and two metric_ids,
\* partitions and lifetimes.
KeyMetrics ==
    {[MetricID |-> id, Namespace |-> ns, MetricName |-> n, Region |-> <<"r">>,
      Dimensions |-> ds, FromTS |-> 3 * id, ToTS |-> 3 * id + 1, UpdatedAt |-> 0] :
     id \in {0, 1}, ns \in {<<"a">>, <<"a", "b">>}, n \in {<<"m">>, <<"b", "m">>},
     ds \in {<<>>, <<Dim(<<"b">>, <<"v">>), Dim(<<"d">>, <<"v">>)>>,
             <<Dim(<<"d">>, <<"v">>), Dim(<<"b">>, <<"v">>)>>}}

\* The identities whose labels are taken: a name that is not a safe one, and
\* dimensions named like no fixed label, like one, and like "__name__".
LabelMetrics ==
    {Ident(<<"a">>, n, <<"r">>, ds) :
     n \in {<<"m">>, <<"0", "-", "m">>},
     ds \in {<<>>, <<Dim(<<"d">>, <<"v">>)>>,
             <<Dim(<<"b">>, <<"v">>), Dim(<<"d">>, <<>>)>>,
             <<Dim(RegionLabel, <<"v">>)>>,
             <<Dim(<<"d">>, <<"v">>), Dim(NameLabel, <<"v">>)>>}}

\* The names made safe: every text of up to MaxNameLen of these characters.
MaxNameLen == 3

InputCharacters == {"a", "Z", "0", "9", "_", ":", "-", "/"}

Names == UNION {[1..n -> InputCharacters] : n \in 0..MaxNameLen}

\* a.UniqueKey() and b.UniqueKey()
CallUniqueKey ==
    /\ \E a, b \in KeyMetrics :
          calc' = [op |-> "UniqueKey", a |-> a, b |-> b,
                   keyA |-> UniqueKey(a), keyB |-> UniqueKey(b)]
    /\ UNCHANGED <<family, task, scraper, db, dbs, lastUsed, initialized, now, last, query, written, nOps,
                   house, resp, recVars>>

\* a.Labels()
CallLabels ==
    /\ \E a \in LabelMetrics :
          calc' = [op |-> "Labels", a |-> a, labels |-> Labels(a)]
    /\ UNCHANGED <<family, task, scraper, db, dbs, lastUsed, initialized, now, last, query, written, nOps,
                   house, resp, recVars>>

\* safeMetricName(name), and safeMetricName of what it returned
CallSafeMetricName ==
    /\ \E name \in Names :
          calc' = [op |-> "safeMetricName", name |-> name,
                   safe |-> safeMetricName(name),
                   again |-> safeMetricName(safeMetricName(name))]
    /\ UNCHANGED <<family, task, scraper, db, dbs, lastUsed, initialized, now, last, query, written, nOps,
                   house, resp, recVars>>

\* encoding/json on the text of an object of strings.  Quote and Backslash are
\* the two characters a JSON string cannot hold as they are.
Quote == "\""

Backslash == "\\"

Whitespace == {" "}

HexDigits == {"0", "1", "2", "3", "4", "5", "6", "7", "8", "9", "a", "b", "c", "d", "e", "f"}

\* The character an escape of one letter stands for; the control characters
\* are written by their names.
Unescape(e) ==
    CASE e = "b" -> "BS" [] e = "f" -> "FF" [] e = "n" -> "LF"
      [] e = "r" -> "CR" [] e = "t" -> "TAB" [] OTHER -> e

RECURSIVE SkipSpace(_, _)
SkipSpace(t, i) == IF i <= Len(t) /\ t[i] \in Whitespace THEN SkipSpace(t, i + 1) ELSE i

RECURSIVE ScanString(_, _, _)
\* The string literal whose opening quote is before t[i]: [ok, str, next].
ScanString(t, i, acc) ==
    IF i > Len(t) THEN [ok |-> FALSE, str |-> acc, next |-> i]
    ELSE IF t[i] = Quote THEN [ok |-> TRUE, str |-> acc, next |-> i + 1]
    ELSE IF t[i] # Backslash THEN ScanString(t, i + 1, Append(acc, t[i]))
    ELSE IF i + 1 > Len(t) THEN [ok |-> FALSE, str |-> acc, next |-> i]
    ELSE IF t[i + 1] \in {Quote, Backslash, "/", "b", "f", "n", "r", "t"}
         THEN ScanString(t, i + 2, Append(acc, Unescape(t[i + 1])))
    ELSE IF /\ t[i + 1] = "u" /\ i + 5 <= Len(t)
            /\ \A k \in 2..5 : t[i + k] \in HexDigits
         THEN ScanString(t, i + 6, Append(acc, <<"u", t[i + 2], t[i + 3], t[i + 4], t[i + 5]>>))
    ELSE [ok |-> FALSE, str |-> acc, next |-> i]

RECURSIVE ScanMembers(_, _, _)
\* The members of an object from t[i] on, a key expected: [err, data].  data
\* is the map, a later member of a key replacing an earlier one.  A value
\* that is no string literal ends the call with an error (of the decoder, or
\* the panic of v.(string) in UnmarshalJSON).
ScanMembers(t, i, data) ==
    LET fail == [err |-> "error", data |-> <<>>] IN
    IF i > Len(t) \/ t[i] # Quote THEN fail
    ELSE LET k == ScanString(t, i + 1, <<>>)
             c == SkipSpace(t, k.next)
         IN  IF ~k.ok \/ c > Len(t) \/ t[c] # ":" THEN fail
             ELSE LET q == SkipSpace(t, c + 1) IN
                  IF q > Len(t) \/ t[q] # Quote THEN fail
                  ELSE LET v == ScanString(t, q + 1, <<>>)
                           e == SkipSpace(t, v.next)
                           d == [x \in DOMAIN data \cup {k.str} |->
                                    IF x = k.str THEN v.str ELSE data[x]]
                       IN  IF ~v.ok \/ e > Len(t) THEN fail
                           ELSE IF t[e] = "}"
                                THEN IF SkipSpace(t, e + 1) > Len(t)
                                     THEN [err |-> "nil", data |-> d] ELSE fail
                           ELSE IF t[e] = "," THEN ScanMembers(t, SkipSpace(t, e + 1), d)
                           ELSE fail

\* json.Unmarshal(b, &data) for data a map[string]interface{}: [err, data]
jsonUnmarshal(b) ==
    LET i == SkipSpace(b, 1) IN
    IF i > Len(b) \/ b[i] # "{" THEN [err |-> "error", data |-> <<>>]
    ELSE LET j == SkipSpace(b, i + 1) IN
         IF j <= Len(b) /\ b[j] = "}"
         THEN IF SkipSpace(b, j + 1) > Len(b) THEN [err |-> "nil", data |-> <<>>]
              ELSE [err |-> "error", data |-> <<>>]
         ELSE ScanMembers(b, j, <<>>)

\* Dimensions.UnmarshalJSON into an empty list: [err, ds], ds the dimensions
\* appended, in the order of the map's iteration, which is any: as a set.
UnmarshalDimensions(b) ==
    LET u == jsonUnmarshal(b) IN
    IF u.err # "nil" THEN [err |-> u.err, ds |-> {}]
    ELSE [err |-> "nil",
          ds |-> {Dim(k, u.data[k]) : k \in DOMAIN u.data \ {NameLabel}}]

\* The dimension lists marshalled: up to two dimensions of distinct names,
\* their values every text of up to MaxValueLen of these characters.
MaxValueLen == 2

ValueCharacters == {"v", Quote, Backslash}

DimValues == UNION {[1..n -> ValueCharacters] : n \in 0..MaxValueLen}

DimNames == {<<"d">>, <<"e">>, NameLabel}

DimLists ==
    {<<>>} \cup {<<Dim(n, v)>> : n \in DimNames, v \in DimValues}
           \cup {<<Dim(n[1], v[1]), Dim(n[2], v[2])>> :
                    n \in {m \in DimNames \X DimNames : m[1] # m[2]},
                    v \in DimValues \X DimValues}

\* ds.MarshalJSON(), and UnmarshalJSON of what it returned
CallMarshalJSON ==
    /\ \E ds \in DimLists :
          calc' = [op |-> "MarshalJSON", ds |-> ds, text |-> MarshalJSON(ds),
                   back |-> UnmarshalDimensions(MarshalJSON(ds))]
    /\ UNCHANGED <<family, task, scraper, db, dbs, lastUsed, initialized, now, last, query, written, nOps,
                   house, resp, recVars>>

NextM == CallUniqueKey \/ CallLabels \/ CallSafeMetricName

SpecM == Init /\ [][NextM]_vars

\* The dimensions of a metric written to the dimensions column and read back.
NextJ == CallMarshalJSON

SpecJ == Init /\ [][NextJ]_vars

Spec == Init /\ [][Next]_vars

\* Writes followed by a query on the same LabelDB.  A query changes only dbs
\* and lastUsed, which decide no result of a later call, so a run is explored
\* up to its first query.
NextQ == RecordMetric \/ QueryMetrics \/ Tick

SpecQ == Init /\ [][NextQ]_vars

-----------------------------------------------------------------------------
(* Housekeeping of the handle cache. *)

\* IdleTimeout, in clock ticks.
IdleTimeout == 1

\* time.Time{}, what a missing key of lastUsed reads as: long before any
\* clock time.
ZeroTime == 0 - (IdleTimeout + 1)

\* ldb.lastUsed[key]
LastUsedAt(S, key) == IF key \in DOMAIN S.lastUsed THEN S.lastUsed[key] ELSE ZeroTime

\* CleanupUnusedDB ranges over the keys of ldb.db, which are the dbPaths, and
\* reads and deletes ldb.lastUsed under the same key.  closeFails are the
\* handles whose Close returns an error: they are kept.
CleanupResult(S, closeFails) ==
    LET evict == {key \in S.dbs :
                     /\ ~(LastUsedAt(S, key) + IdleTimeout > S.clock)
                     /\ key \notin closeFails}
    IN  [S EXCEPT !.dbs = @ \ evict,
                  !.lastUsed = [k \in DOMAIN @ \ evict |-> @[k]]]

\* LabelDB.CleanupUnusedDB
CleanupUnusedDB ==
    /\ nOps < MaxOps
    /\ house.op = "none"
    /\ \E closeFails \in SUBSET dbs :
         LET r == CleanupResult(Store, closeFails) IN
         /\ dbs' = r.dbs
         /\ lastUsed' = r.lastUsed
         /\ house' = [op |-> "CleanupUnusedDB", at |-> now, closeFails |-> closeFails]
    /\ nOps' = nOps + 1
    /\ UNCHANGED <<envVars, db, initialized, now, last, query, written, resp, recVars>>

\* The write path with the idle cleanup.
NextC == RecordMetric \/ Tick \/ CleanupUnusedDB

SpecC == Init /\ [][NextC]_vars

-----------------------------------------------------------------------------
(* The HTTP boundary: GET /api/v1/series. *)

\* end.After(now - 3h50m), in clock ticks: an end in the current tick is fresh.
FreshAge == 1

\* fresh_metrics.parseMatcher: the values of the last matchers named
\* Namespace, __name__ or MetricName, and Region.
RECURSIVE LastValue(_, _, _)
LastValue(lm, names, v) ==
    IF lm = <<>> THEN v
    ELSE LastValue(Tail(lm), names, IF Head(lm).Name \in names THEN Head(lm).Value ELSE v)

\* FreshMetrics.QueryMetrics: [err, result].  out is what the CloudWatch API
\* answers when it is asked: an error, or the entries it lists, which replace
\* the entries of the result under their keys.
FreshQueryMetrics(lm, result, out) ==
    IF \/ LastValue(lm, {NamespaceLabel}, <<>>) = <<>>
       \/ LastValue(lm, {NameLabel, MetricNameLabel}, <<>>) = <<>>
       \/ LastValue(lm, {RegionLabel}, <<>>) = <<>>
    THEN [err |-> "nil", result |-> result]
    ELSE IF out.err # "nil" THEN [err |-> out.err, result |-> <<>>]
    ELSE [err |-> "nil",
          result |-> [k \in DOMAIN result \cup DOMAIN out.found |->
                         IF k \in DOMAIN out.found THEN out.found[k] ELSE result[k]]]

RECURSIVE FreshLoop(_, _, _)
\* seriesHandler, the loop over the selectors that queries the fresh metrics.
FreshLoop(matchers, result, out) ==
    IF matchers = <<>> THEN [err |-> "nil", result |-> result]
    ELSE LET r == FreshQueryMetrics(Head(matchers), result, out) IN
         IF r.err # "nil" THEN r ELSE FreshLoop(Tail(matchers), r.result, out)

RECURSIVE SeriesLoop(_, _, _, _, _, _, _, _)
\* seriesHandler, after one db.QueryMetrics call returned r: its error ends
\* the loop, else the loop goes on with the selectors left.
SeriesStep(r, matchers, start, end, limit, ord) ==
    IF r.err # "nil" THEN [err |-> r.err, S |-> r.S, result |-> r.result]
    ELSE SeriesLoop(r.S, matchers, start, end, limit, r.result, ord,
                    [at |-> 0, kind |-> "none"])

\* seriesHandler, the loop over the selectors that queries the database:
\* [err, S, result].  fail is where the store fails during the first call.
SeriesLoop(S, matchers, start, end, limit, result, ord, fail) ==
    IF matchers = <<>> THEN [err |-> "nil", S |-> S, result |-> result]
    ELSE SeriesStep(QueryMetricsResult(S, start, end, Head(matchers), limit, result, ord, fail),
                    Tail(matchers), start, end, limit, ord)

\* The statuses of net/http; 0 stands for a connection the server aborts
\* without an answer, which is what it does when the handler panics.
StatusOK == 200
StatusBadRequest == 400
StatusInternalServerError == 500
Aborted == 0

\* seriesHandler, the answer once the database loop returned q: the "data"
\* of a 200 answer is cut to a positive limit.
SeriesAnswer(q, limit) ==
    IF q.err = "panic"
    THEN [status |-> Aborted, err |-> q.err, count |-> 0, S |-> q.S]
    ELSE IF q.err # "nil"
    THEN [status |-> StatusInternalServerError, err |-> q.err, count |-> 0, S |-> q.S]
    ELSE LET n == Cardinality(DOMAIN q.result) IN
         [status |-> StatusOK, err |-> "nil",
          count |-> IF limit > 0 /\ n > limit THEN limit ELSE n, S |-> q.S]

\* seriesHandler, once the parameters are parsed: the fresh metrics are asked
\* when the end is recent, then the database.
SeriesQuery(S, req, ord, fresh) ==
    IF fresh.err # "nil"
    THEN [status |-> StatusInternalServerError, err |-> fresh.err, count |-> 0, S |-> S]
    ELSE SeriesAnswer(SeriesLoop(S, req.match.matchers, req.start.t, req.end.t,
                                 req.limit.n, fresh.result, ord, req.fail),
                      req.limit.n)

\* seriesHandler: [status, err, count, S].  err is the error the handler
\* answers for, count the length of "data" in a 200 answer.
seriesHandlerResult(S, req, ord) ==
    IF ~req.match.ok
    THEN [status |-> StatusBadRequest, err |-> "invalid match[] parameter", count |-> 0, S |-> S]
    ELSE IF ~req.start.ok
    THEN [status |-> StatusBadRequest, err |-> "failed to parse start timestamp", count |-> 0, S |-> S]
    ELSE IF ~req.end.ok
    THEN [status |-> StatusBadRequest, err |-> "failed to parse end timestamp", count |-> 0, S |-> S]
    ELSE IF ~req.limit.ok
    THEN [status |-> StatusBadRequest, err |-> "failed to parse limit", count |-> 0, S |-> S]
    ELSE SeriesQuery(S, req, ord,
                     IF req.end.t > S.clock - FreshAge
                     THEN FreshLoop(req.match.matchers, <<>>, req.fresh)
                     ELSE [err |-> "nil", result |-> <<>>])

\* The selectors of the requests.
SelNamespace == <<Matcher(NamespaceLabel, "=", TextA)>>
SelName == <<Matcher(NameLabel, "=", TextM)>>
SelFull == <<Matcher(NamespaceLabel, "=", TextA), Matcher(NameLabel, "=", TextM),
             Matcher(RegionLabel, "=", <<"r">>)>>

Param(ok, v) == [ok |-> ok, t |-> v]
LimitParam(ok, n) == [ok |-> ok, n |-> n]
Match(ok, matchers) == [ok |-> ok, matchers |-> matchers]
NoFresh == [err |-> "nil", found |-> <<>>]
NoFailure == [at |-> 0, kind |-> "none"]

\* The windows of the requests: inside one partition, over two, a point, and
\* an end before the start.
SeriesWindows == {<<0, 1>>, <<0, 4>>, <<1, 1>>, <<1, 0>>}

\* The requests: every match[] with every window; timestamps and limits that
\* do not parse; a limit; what the CloudWatch API answers; a failing store.
Requests ==
    [match : {Match(FALSE, <<>>), Match(TRUE, <<>>), Match(TRUE, <<SelNamespace>>),
              Match(TRUE, <<SelName>>), Match(TRUE, <<SelNamespace, SelName>>)},
     start : {Param(TRUE, w[1]) : w \in SeriesWindows},
     end : {Param(TRUE, w[2]) : w \in SeriesWindows},
     limit : {LimitParam(TRUE, 0)}, fresh : {NoFresh}, fail : {NoFailure}]
    \cup [match : {Match(TRUE, <<SelNamespace>>)},
          start : {Param(TRUE, 0), Param(FALSE, 0)}, end : {Param(TRUE, 4), Param(FALSE, 0)},
          limit : {LimitParam(TRUE, 0), LimitParam(TRUE, 1), LimitParam(FALSE, 0)},
          fresh : {NoFresh}, fail : {NoFailure}]
    \cup [match : {Match(TRUE, <<SelFull>>)}, start : {Param(TRUE, 0)}, end : {Param(TRUE, 4)},
          limit : {LimitParam(TRUE, 0)},
          fresh : {[err |-> "error", found |-> <<>>]} \cup {[err |-> "nil", found |-> f] : f \in Seeds},
          fail : {NoFailure}]
    \cup [match : {Match(TRUE, <<SelNamespace>>)}, start : {Param(TRUE, 0)}, end : {Param(TRUE, 4)},
          limit : {LimitParam(TRUE, 0)}, fresh : {NoFresh},
          fail : {[at |-> 1, kind |-> "query"]}]

\* GET /api/v1/series
seriesHandler ==
    /\ nOps < MaxOps
    /\ resp.op = "none"
    /\ \E req \in Requests, ord \in Orders :
       \E r \in {seriesHandlerResult(Store, req, ord)} :
         /\ dbs' = r.S.dbs
         /\ lastUsed' = r.S.lastUsed
         /\ resp' = [op |-> "seriesHandler", req |-> req, status |-> r.status,
                     err |-> r.err, count |-> r.count]
    /\ nOps' = nOps + 1
    /\ UNCHANGED <<envVars, db, initialized, written, now, last, query, house, recVars>>

\* The server: the recorder's writes and the requests on one LabelDB.
NextS == RecordMetric \/ seriesHandler \/ Tick

SpecS == Init /\ [][NextS]_vars

-----------------------------------------------------------------------------
(* The query process: a handler goroutine in QueryMetrics and the goroutine *)
(* of main that calls CleanupUnusedDB on its ticker, on one LabelDB, which   *)
(* has no lock.  The steps are the accesses to the maps and to the handle.  *)

MaxRequests == 2   \* requests served
MaxCleanups == 2   \* firings of the cleanup ticker

\* The ranges asked for: within one partition, and over two.
HandlerWindows == {<<0, 1>>, <<0, 4>>}

\* A request arrives: QueryMetrics computes the ranges and enters its loop.
HandlerBegin ==
    /\ ~task.crashed /\ task.handler.pc = "idle"
    /\ task.requests < MaxRequests
    /\ \E w \in HandlerWindows :
         task' = [task EXCEPT !.requests = @ + 1,
                              !.handler = [HandlerIdle EXCEPT
                                              !.pc = "stamp", !.i = 1,
                                              !.trs = getLifetimeRanges(w[1], w[2])]]
    /\ UNCHANGED <<family, calc, scraper, db, dbs, lastUsed, initialized, now, last, query, written,
                   nOps, house, resp, recVars>>

\* getDB, its first statement: ldb.lastUsed[suffix] = time.Now()
HandlerStamp ==
    /\ ~task.crashed /\ task.handler.pc = "stamp"
    /\ lastUsed' = getDB(Store, task.handler.trs[task.handler.i].From).lastUsed
    /\ task' = [task EXCEPT !.handler.pc = "lookup"]
    /\ UNCHANGED <<family, calc, scraper, db, dbs, initialized, now, last, query, written,
                   nOps, house, resp, recVars>>

\* getDB, the rest: the handle under ldb.db[dbPath], opened and stored when
\* there is none.  An entry stored while CleanupUnusedDB ranges over the map
\* is visited by the range or not.
HandlerLookup ==
    /\ ~task.crashed /\ task.handler.pc = "lookup"
    /\ LET key == DbPath(getTableSuffix(task.handler.trs[task.handler.i].From)) IN
       /\ dbs' = getDB(Store, task.handler.trs[task.handler.i].From).dbs
       /\ \E seen \in IF task.cleaner.pc = "scan" /\ key \notin dbs THEN {{}, {key}} ELSE {{}} :
            task' = [task EXCEPT !.handler.pc = "query", !.handler.held = {key},
                                 !.handler.open = TRUE,
                                 !.cleaner.todo = @ \cup seen]
    /\ UNCHANGED <<family, calc, scraper, db, lastUsed, initialized, now, last, query, written,
                   nOps, house, resp, recVars>>

\* db.QueryContext on the handle and the scan of its rows: on a handle that
\* has been closed it fails ("sql: database is closed") and QueryMetrics
\* returns the error; otherwise the loop goes on to the next range.
HandlerQuery ==
    /\ ~task.crashed /\ task.handler.pc = "query"
    /\ task' = [task EXCEPT !.handler =
                   IF ~task.handler.open THEN [HandlerIdle EXCEPT !.err = "error"]
                   ELSE IF task.handler.i < Len(task.handler.trs)
                   THEN [task.handler EXCEPT !.pc = "stamp", !.i = @ + 1, !.held = {}]
                   ELSE HandlerIdle]
    /\ UNCHANGED <<family, calc, scraper, db, dbs, lastUsed, initialized, now, last, query, written,
                   nOps, house, resp, recVars>>

\* The ticker of main fires: CleanupUnusedDB starts to range over ldb.db.
CleanerBegin ==
    /\ ~task.crashed /\ task.cleaner.pc = "wait"
    /\ task.cleanups < MaxCleanups
    /\ task' = [task EXCEPT !.cleanups = @ + 1, !.cleaner = [pc |-> "scan", todo |-> dbs]]
    /\ UNCHANGED <<family, calc, scraper, db, dbs, lastUsed, initialized, now, last, query, written,
                   nOps, house, resp, recVars>>

\* CleanupUnusedDB, one turn of its loop: the handle under key is left alone,
\* or closed and deleted.  Close makes the handle refuse every later query,
\* whoever holds it.
CleanerVisit ==
    /\ ~task.crashed /\ task.cleaner.pc = "scan"
    /\ \E key \in task.cleaner.todo, closeFails \in BOOLEAN :
         LET r == CleanupResult([Store EXCEPT !.dbs = {key}],
                                IF closeFails THEN {key} ELSE {})
         IN  /\ dbs' = (dbs \ {key}) \cup r.dbs
             /\ lastUsed' = r.lastUsed
             /\ task' = [task EXCEPT
                            !.cleaner.todo = @ \ {key},
                            !.handler.open = @ /\ ~(r.dbs = {} /\ key \in task.handler.held)]
    /\ UNCHANGED <<family, calc, scraper, db, initialized, now, last, query, written,
                   nOps, house, resp, recVars>>

\* CleanupUnusedDB returns and the goroutine waits for the next tick.
CleanerEnd ==
    /\ ~task.crashed /\ task.cleaner.pc = "scan" /\ task.cleaner.todo = {}
    /\ task' = [task EXCEPT !.cleaner = CleanerIdle]
    /\ UNCHANGED <<family, calc, scraper, db, dbs, lastUsed, initialized, now, last, query, written,
                   nOps, house, resp, recVars>>

\* The handler is inside getDB while CleanupUnusedDB ranges over the maps:
\* a data race on Go maps, which the runtime may detect and end the process
\* for ("fatal error: concurrent map iteration and map write").
MapRace ==
    /\ ~task.crashed
    /\ task.handler.pc = "lookup" /\ task.cleaner.pc = "scan"
    /\ task' = [task EXCEPT !.crashed = TRUE]
    /\ UNCHANGED <<family, calc, scraper, db, dbs, lastUsed, initialized, now, last, query, written,
                   nOps, house, resp, recVars>>

NextH ==
    \/ HandlerBegin \/ HandlerStamp \/ HandlerLookup \/ HandlerQuery
    \/ CleanerBegin \/ CleanerVisit \/ CleanerEnd \/ MapRace \/ Tick

SpecH == Init /\ [][NextH]_vars

-----------------------------------------------------------------------------
(* The recorder: the goroutine of Recorder.Run on the ingest queue. *)

MaxRetry == 3
QueueCap == 2     \* capacity of the ingest queue
MaxSent == 2      \* identities sent through the queue

\* The lifetimes of the identities sent: a valid one, a point, one whose
\* end is before its start, and one over two partitions.
RecWindows == {<<0, 1>>, <<0, 0>>, <<1, 0>>, <<0, 4>>}

RecMetrics == {m \in Metrics : <<m.FromTS, m.ToTS>> \in RecWindows}

Idle == [pc |-> "select", i |-> 0, attempts |-> <<>>]

\* The for loop of Run: whether another attempt follows attempt i (from 0)
\* that returned err, when every attempt is made whatever the one before
\* returned.
RetryAgainNoBreak(i, err) == i + 1 < MaxRetry

\* The for loop of Run: whether another attempt follows attempt i (from 0)
\* that returned err.
RetryAgain(i, err) == err # "nil" /\ i + 1 < MaxRetry

\* A faulty channel: what is sent overtakes what waits.
EnqueueFirst(ch, metric) == <<metric>> \o ch

\* metricsCh <- metric: a channel is first in, first out.
Enqueue(ch, metric) == Append(ch, metric)

\* A scraper sends an identity: metricsCh <- metric, which blocks while the
\* queue is full.
Send ==
    /\ ~closed /\ recorder.pc # "crashed"
    /\ Len(sent) < MaxSent
    /\ Len(metricsCh) < QueueCap
    /\ \E metric \in RecMetrics :
         /\ metricsCh' = Enqueue(metricsCh, metric)
         /\ sent' = Append(sent, metric)
    /\ UNCHANGED <<envVars, db, dbs, lastUsed, initialized, now, last, query, written, nOps,
                   house, resp, closed, recorder, done, stop, handled>>

\* close(metricsCh), after the scrapers have stopped.
CloseQueue ==
    /\ ~closed /\ recorder.pc # "crashed"
    /\ closed' = TRUE
    /\ UNCHANGED <<envVars, db, dbs, lastUsed, initialized, now, last, query, written, nOps,
                   house, resp, metricsCh, recorder, done, stop, sent, handled>>

\* Run, case metric, ok := <-r.metricsCh with ok: an identity is dequeued.
\* limiter.Wait on context.TODO() with burst 1 does not fail.
RunReceive ==
    /\ recorder.pc = "select"
    /\ metricsCh # <<>>
    /\ recorder' = [pc |-> "record", i |-> 0, attempts |-> <<>>, metric |-> Head(metricsCh)]
    /\ metricsCh' = Tail(metricsCh)
    /\ UNCHANGED <<envVars, db, dbs, lastUsed, initialized, now, last, query, written, nOps,
                   house, resp, closed, done, stop, sent, handled>>

\* Run, case <-r.metricsCh with !ok: the queue is closed and empty, the
\* goroutine returns and the deferred close(r.done) runs.
RunReturn ==
    /\ recorder.pc = "select"
    /\ metricsCh = <<>> /\ closed
    /\ recorder' = [recorder EXCEPT !.pc = "exited"]
    /\ done' = TRUE
    /\ UNCHANGED <<envVars, db, dbs, lastUsed, initialized, now, last, query, written, nOps,
                   house, resp, metricsCh, closed, stop, sent, handled>>

\* Run, one turn of the for loop: r.ldb.RecordMetric(ctx, metric).  A panic in
\* RecordMetric is not recovered: the deferred close(r.done) runs and the
\* process dies.
RunRecord ==
    /\ recorder.pc = "record"
    /\ \E fail \in Failures(recorder.metric) :
       \E r \in {RecordMetricResult(Store, recorder.metric, fail)} :
         LET attempts == Append(recorder.attempts, r.err)
         IN  /\ db' = r.S.db
             /\ dbs' = r.S.dbs
             /\ lastUsed' = r.S.lastUsed
             /\ initialized' = r.S.initialized
             /\ written' = r.S.written
             /\ IF r.err = "panic"
                THEN /\ recorder' = [recorder EXCEPT !.pc = "crashed", !.attempts = attempts]
                     /\ done' = TRUE
                     /\ handled' = handled
                ELSE IF RetryAgain(recorder.i, r.err)
                THEN /\ recorder' = [recorder EXCEPT !.i = @ + 1, !.attempts = attempts]
                     /\ UNCHANGED <<done, handled>>
                ELSE /\ recorder' = Idle
                     /\ handled' = Append(handled, [metric |-> recorder.metric,
                                                    attempts |-> attempts])
                     /\ done' = done
    /\ UNCHANGED <<envVars, now, last, query, nOps, house, resp, metricsCh, closed, stop, sent>>

\* LabelDB.WalCheckpoint: the PRAGMA on the handles of ldb.db in the order of
\* the map's iteration, which is any, up to the first one that fails:
\* [err, issued], issued the handles the PRAGMA was issued on.  failing are
\* the handles on which it fails.
WalCheckpoints(open, failing) ==
    IF open \cap failing = {} THEN {[err |-> "nil", issued |-> open]}
    ELSE {[err |-> "error", issued |-> passed \cup {f}] :
             f \in open \cap failing, passed \in SUBSET (open \ failing)}

\* Run, case <-checkpointTicker.C: WalCheckpoint, whose error is ignored,
\* then CleanupUnusedDB.
RunCheckpoint ==
    /\ recorder.pc = "select"
    /\ house.op = "none"
    /\ \E closeFails \in SUBSET dbs, failing \in SUBSET dbs :
       \E wal \in WalCheckpoints(dbs, failing) :
         LET r == CleanupResult(Store, closeFails) IN
         /\ dbs' = r.dbs
         /\ lastUsed' = r.lastUsed
         /\ house' = [op |-> "CleanupUnusedDB", at |-> now, closeFails |-> closeFails,
                      wal |-> wal]
    /\ UNCHANGED <<envVars, db, initialized, now, last, query, written, nOps, resp, recVars>>

\* Recorder.Stop: <-r.done
Stop ==
    /\ stop = "idle"
    /\ done
    /\ stop' = "returned"
    /\ UNCHANGED <<envVars, db, dbs, lastUsed, initialized, now, last, query, written, nOps,
                   house, resp, metricsCh, closed, recorder, done, sent, handled>>

NextR ==
    Send \/ CloseQueue \/ RunReceive \/ RunReturn \/ RunRecord \/ RunCheckpoint \/ Stop

SpecR == Init /\ [][NextR]_vars

\* The calls of RecordMetric return and the sleeps between them end: the
\* goroutine does not stay in the for loop for ever.  Under SpecR this is
\* WF_vars(RunRecord): RunRecord is enabled exactly while recorder.pc is
\* "record", and at most MaxRetry of its steps lead out of the loop.
RecordReturns == []<>(recorder.pc # "record")

\* The goroutine of Run is scheduled while it can take a step, the scrapers
\* are stopped and the queue closed on shutdown, and Stop, called after the
\* close, returns once the goroutine has returned.  The select of Run takes
\* the queue's case and the ticker's at random, and the ticker fires once in
\* six hours, so a ready queue is served.
SpecRLive ==
    /\ SpecR
    /\ WF_vars(RunReceive) /\ WF_vars(RunReturn) /\ RecordReturns
    /\ WF_vars(CloseQueue)
    /\ WF_vars(Stop /\ recorder.pc = "exited")

-----------------------------------------------------------------------------
(* The scrapers: the goroutine of CloudWatchScraper.Run of each target, and *)
(* Recorder.stop of cmd/recorder, with the goroutine of Recorder.Run as the  *)
(* consumer of the queue.                                                    *)

MaxPages == 2      \* pages fetched by one scraper, in all its scrapes

\* The metrics a page of ListMetrics holds: none or one, with the lifetime
\* that scrape gives it.
ScrapedMetrics == {m \in RecMetrics : m.FromTS = 0 /\ m.ToTS = 1 /\ m.Dimensions = <<>>}

Pages == {<<>>} \cup {<<m>> : m \in ScrapedMetrics}

\* c.scrapeWarningsTotal.Inc()
Warned(t) == [t EXCEPT !.warnings = (@ + 1) % 2]

\* scrape returns, and the goroutine is at the select of Run.
AtSelect(t) == [t EXCEPT !.pc = "select", !.batch = <<>>]

\* A faulty wait: it ends when the scraper's context is cancelled.
StoppedOnCancel(t) == t.cancelled

\* <-c.done is ready: the goroutine of Run has returned.
Stopped(t) == t.pc = "exited"

\* scrape, c.limiter.Wait(ctx): with the context cancelled it returns an
\* error at once, the warning is counted and continue leads back to
\* paginator.HasMorePages(), which is as it was; otherwise a token is had.
ScrapeWait(id) ==
    /\ scraper.tasks[id].pc = "wait"
    /\ scraper' = [scraper EXCEPT !.tasks[id] =
                      IF @.cancelled THEN Warned(@) ELSE [@ EXCEPT !.pc = "fetch"]]
    /\ UNCHANGED <<family, calc, task, storeVars, recVars>>

\* scrape, paginator.NextPage(ctx): an error (always so with the context
\* cancelled) ends the loop; otherwise a page is had, with a token for a
\* further page or none.
ScrapeFetch(id) ==
    /\ scraper.tasks[id].pc = "fetch"
    /\ \/ scraper' = [scraper EXCEPT !.tasks[id] = AtSelect(Warned(@))]
       \/ /\ ~scraper.tasks[id].cancelled
          /\ \E page \in IF Len(sent) + Cardinality({i \in Scrapers : scraper.tasks[i].batch # <<>>})
                                < MaxSent
                          THEN Pages ELSE {<<>>},
                more \in IF scraper.tasks[id].fetched + 1 < MaxPages
                          THEN BOOLEAN ELSE {FALSE} :
                scraper' = [scraper EXCEPT !.tasks[id] =
                               [@ EXCEPT !.fetched = @ + 1, !.more = more,
                                         !.batch = page,
                                         !.pc = IF page # <<>> THEN "send"
                                                ELSE IF more THEN "wait" ELSE "select"]]
    /\ UNCHANGED <<family, calc, task, storeVars, recVars>>

\* scrape, c.metricsCh <- model.Metric{...}: blocks while the queue is full,
\* whatever the context; on a closed queue it panics.
ScrapeSend(id) ==
    /\ scraper.tasks[id].pc = "send"
    /\ ~scraper.panicked
    /\ IF closed
       THEN /\ scraper' = [scraper EXCEPT !.panicked = TRUE]
            /\ UNCHANGED <<metricsCh, sent>>
       ELSE /\ Len(metricsCh) < QueueCap
            /\ metricsCh' = Enqueue(metricsCh, Head(scraper.tasks[id].batch))
            /\ sent' = Append(sent, Head(scraper.tasks[id].batch))
            /\ scraper' = [scraper EXCEPT !.tasks[id] =
                              IF Len(@.batch) > 1 THEN [@ EXCEPT !.batch = Tail(@)]
                              ELSE IF @.more THEN [@ EXCEPT !.batch = <<>>, !.pc = "wait"]
                              ELSE AtSelect(@)]
    /\ UNCHANGED <<family, calc, task, storeVars, closed, recorder, done, stop, handled>>

\* Run, case <-ticker.C: the next scrape, with a new paginator.
ScraperTick(id) ==
    /\ scraper.tasks[id].pc = "select"
    /\ scraper.tasks[id].fetched < MaxPages
    /\ scraper' = [scraper EXCEPT !.tasks[id] = [@ EXCEPT !.pc = "wait", !.more = TRUE]]
    /\ UNCHANGED <<family, calc, task, storeVars, recVars>>

\* Run, case <-ctx.Done(): the goroutine returns and the deferred
\* close(c.done) runs.
ScraperReturn(id) ==
    /\ scraper.tasks[id].pc = "select"
    /\ scraper.tasks[id].cancelled
    /\ scraper' = [scraper EXCEPT !.tasks[id].pc = "exited"]
    /\ UNCHANGED <<family, calc, task, storeVars, recVars>>

\* Recorder.stop, the loop over the scrapers: CloudWatchScraper.Stop calls
\* c.cancel().
StopCancel ==
    /\ scraper.stopper.pc = "run"
    /\ scraper' = [scraper EXCEPT !.tasks[scraper.stopper.i].cancelled = TRUE,
                                  !.stopper.pc = "done"]
    /\ UNCHANGED <<family, calc, task, storeVars, recVars>>

\* CloudWatchScraper.Stop, <-c.done, and the loop goes on to the next scraper
\* or ends.
StopWaitDone ==
    /\ scraper.stopper.pc = "done"
    /\ Stopped(scraper.tasks[scraper.stopper.i])
    /\ scraper' = [scraper EXCEPT !.stopper =
                      IF @.i < NumScrapers THEN [pc |-> "run", i |-> @.i + 1]
                      ELSE [pc |-> "close", i |-> @.i]]
    /\ UNCHANGED <<family, calc, task, storeVars, recVars>>

\* Recorder.stop: close(r.metricsCh), then r.recorder.Stop() is entered.
StopCloseQueue ==
    /\ scraper.stopper.pc = "close"
    /\ closed' = TRUE
    /\ stop' = "waiting"
    /\ scraper' = [scraper EXCEPT !.stopper.pc = "recorder"]
    /\ UNCHANGED <<family, calc, task, storeVars, metricsCh, recorder, done, sent, handled>>

\* Recorder.Stop: <-r.done, and Recorder.stop returns.
StopRecorder ==
    /\ scraper.stopper.pc = "recorder"
    /\ done
    /\ stop' = "returned"
    /\ scraper' = [scraper EXCEPT !.stopper.pc = "returned"]
    /\ UNCHANGED <<family, calc, task, storeVars, metricsCh, closed, recorder, done, sent,
                   handled>>

ScraperStep(id) ==
    ScrapeWait(id) \/ ScrapeFetch(id) \/ ScrapeSend(id) \/ ScraperTick(id) \/ ScraperReturn(id)

StopStep == StopCancel \/ StopWaitDone \/ StopCloseQueue \/ StopRecorder

NextP ==
    \/ \E id \in Scrapers : ScraperStep(id)
    \/ StopStep
    \/ RunReceive \/ RunRecord \/ RunReturn

SpecP == Init /\ [][NextP]_vars

\* Every goroutine is scheduled while it can take a step: the scrapers (the
\* limiter grants a token in the end, ListMetrics answers, a send proceeds
\* when the queue has room), stop() once the signal has come, and the
\* recorder, which keeps consuming: it takes what is in the queue and its
\* calls of RecordMetric return.
SpecPLive ==
    /\ SpecP
    /\ \A id \in Scrapers :
          /\ WF_vars(ScrapeWait(id)) /\ WF_vars(ScrapeFetch(id)) /\ WF_vars(ScrapeSend(id))
          /\ WF_vars(ScraperReturn(id))
    /\ WF_vars(StopStep)
    /\ WF_vars(RunReceive) /\ WF_vars(RunReturn) /\ RecordReturns

-----------------------------------------------------------------------------
(* Properties of the write path. *)

\* The identity a stored row stands for.
RowIdentity(r) ==
    [Namespace |-> r.namespace, MetricName |-> r.metric_name, Region |-> r.region,
     Dimensions |-> SortByName(UnmarshalJSON(r.dimensions))]

HasRow(file, id) == \E r \in file.rows : RowIdentity(r) = id

\* A step of RecordMetric.
RecordStep ==
    /\ nOps' = nOps + 1 /\ query' = query /\ resp' = resp /\ house' = house
    /\ last'.op = "RecordMetric"

UniqueRows ==
    \A s \in Suffixes : \A r1, r2 \in db[s].rows :
        RowIdentity(r1) = RowIdentity(r2) => r1 = r2

RowsKeepId ==
    \A s \in Suffixes : \A r \in db[s].rows :
        \E r2 \in db'[s].rows : r2.metric_id = r.metric_id /\ RowIdentity(r2) = RowIdentity(r)

\* C1 (Invariant U): after any sequence of RecordMetric calls, successful or
\* failed, every partition holds at most one row per identity (namespace,
\* metric name, region, normalized dimensions); a write of an identity that
\* has a row keeps that row and its metric_id and inserts no second row.
InvariantU == [][UniqueRows' /\ RowsKeepId]_vars

\* C1's case: the second write of an identity found its row in the first
\* partition of its lifetime and widened it.
WitnessU ==
    /\ nOps = 2 /\ last.op = "RecordMetric" /\ last.err = "nil"
    /\ LET file == db[getTableSuffix(last.metric.FromTS)] IN
       /\ Cardinality(file.rows) = 1
       /\ \E r \in file.rows : /\ RowIdentity(r) = IdentityOf(last.metric)
                               /\ r.metric_id = 1
                               /\ r.from_timestamp < last.metric.FromTS

HullMatches ==
    \A s \in Suffixes :
        /\ \A r \in db[s].rows :
              LET k == <<s, RowIdentity(r)>> IN
              /\ k \in DOMAIN written
              /\ r.from_timestamp = written[k].From
              /\ r.to_timestamp = written[k].To
        /\ \A k \in DOMAIN written : k[1] = s => HasRow(db[s], k[2])

RangeOnlyWidens ==
    \A s \in Suffixes : \A r \in db[s].rows : \A r2 \in db'[s].rows :
        r2.metric_id = r.metric_id =>
            r2.from_timestamp <= r.from_timestamp /\ r2.to_timestamp >= r.to_timestamp

\* C2 (Invariant M): the range stored for an identity in a partition is the
\* union (least from, greatest to) of every sub-range committed for that
\* identity in that partition, and an update never raises from_timestamp nor
\* lowers to_timestamp.
InvariantM == [][HullMatches' /\ RangeOnlyWidens]_vars

\* C2's case: a second write lying strictly inside the stored range left the
\* earlier bounds in place.
WitnessM ==
    /\ nOps = 2 /\ last.op = "RecordMetric" /\ last.err = "nil"
    /\ \E r \in db[getTableSuffix(last.metric.FromTS)].rows :
          /\ RowIdentity(r) = IdentityOf(last.metric)
          /\ r.from_timestamp < last.metric.FromTS
          /\ r.to_timestamp > last.metric.ToTS

\* Whether the partition window s = <<start, end>> intersects [a, b].
Intersects(s, a, b) == s[1] <= b /\ s[2] >= a

\* C3 (Invariant P): a successful RecordMetric of an identity with lifetime
\* [a, b], a <= b, leaves a row of the identity in every partition whose
\* window intersects [a, b] and touches no other partition.
InvariantP ==
    [][(RecordStep /\ last'.err = "nil" /\ last'.metric.FromTS <= last'.metric.ToTS)
        => \A s \in Suffixes :
              IF Intersects(s, last'.metric.FromTS, last'.metric.ToTS)
              THEN HasRow(db'[s], IdentityOf(last'.metric))
              ELSE db'[s] = db[s]]_vars

\* The windows of the partitions [a, b] intersects.
WindowsOf(a, b) == {getTableSuffix(t) : t \in a..b}

RangesCover(trs, a, b) ==
    /\ Len(trs) = Cardinality(WindowsOf(a, b))
    /\ trs[1].From = a
    /\ trs[Len(trs)].To = b
    /\ \A i \in 1..Len(trs) :
          /\ trs[i].From <= trs[i].To
          /\ getPartition(trs[i].From).From <= trs[i].From
          /\ trs[i].To <= getPartition(trs[i].From).To
    /\ \A i \in 1..(Len(trs) - 1) :
          /\ trs[i].To = getPartition(trs[i].From).To
          /\ trs[i + 1].From = trs[i].To + 1

\* C5: for every from <= to getLifetimeRanges returns one sub-range per
\* partition window [from, to] intersects, in time order: the first starts at
\* from, the last ends at to, the ends in between are the partition
\* boundaries, each sub-range lies inside its own window, and together they
\* cover [from, to] without gap.
PartitionsCovering ==
    (last.op = "RecordMetric" /\ last.metric.FromTS <= last.metric.ToTS)
        => /\ ~RangesPanic(last.metric.FromTS, last.metric.ToTS)
           /\ RangesCover(getLifetimeRanges(last.metric.FromTS, last.metric.ToTS),
                          last.metric.FromTS, last.metric.ToTS)

\* C6: RecordMetric with to_ts = from_ts returns no error (the store not
\* failing) and leaves, in the partition of that instant, a row of the
\* identity whose range holds the instant, and is the instant alone when the
\* row is new.
PointLifetimeAccepted ==
    (last.op = "RecordMetric" /\ last.metric.FromTS = last.metric.ToTS /\ last.err # "error")
        => /\ last.err = "nil"
           /\ \E r \in db[getTableSuffix(last.metric.FromTS)].rows :
                 /\ RowIdentity(r) = IdentityOf(last.metric)
                 /\ r.from_timestamp <= last.metric.FromTS
                 /\ r.to_timestamp >= last.metric.ToTS
                 /\ nOps = 1 => (r.from_timestamp = last.metric.FromTS
                                 /\ r.to_timestamp = last.metric.ToTS)

\* C7: RecordMetric with to_ts < from_ts returns the invalid-interval error
\* before anything else is done: no partition file changes (no row, no
\* lifetime entry, and a stored row keeps its range and its updated_at), no
\* handle is fetched and the schema memo is not touched.
InvalidIntervalRejected ==
    [][(RecordStep /\ last'.metric.ToTS < last'.metric.FromTS)
        => /\ last'.err = "invalid"
           /\ UNCHANGED <<db, dbs, lastUsed, initialized, written>>]_vars

\* C7's case: the rejected call names an identity that has a row, written at
\* an earlier clock time.
WitnessInvalidInterval ==
    /\ last.op = "RecordMetric" /\ last.err = "invalid"
    /\ last.metric.ToTS < last.metric.FromTS
    /\ \E s \in Suffixes : \E r \in db[s].rows :
          RowIdentity(r) = IdentityOf(last.metric) /\ r.updated_at < now

-----------------------------------------------------------------------------
(* Properties of the query path. *)

\* The value an identity carries for a label name; "" when it has none.
LabelValue(id, name) ==
    IF name = NamespaceLabel THEN id.Namespace
    ELSE IF name \in {NameLabel, MetricNameLabel} THEN id.MetricName
    ELSE IF name = RegionLabel THEN id.Region
    ELSE LET hit == {i \in 1..Len(id.Dimensions) : id.Dimensions[i].Name = name} IN
         IF hit = {} THEN <<>> ELSE id.Dimensions[CHOOSE i \in hit : TRUE].Value

Satisfies(id, mt) ==
    CASE mt.Type = "=" -> LabelValue(id, mt.Name) = mt.Value
      [] mt.Type = "!=" -> LabelValue(id, mt.Name) # mt.Value
      [] mt.Type = "=~" -> Contains(LabelValue(id, mt.Name), mt.Value)
      [] mt.Type = "!~" -> ~Contains(LabelValue(id, mt.Name), mt.Value)

SatisfiesAll(id, lm) == \A i \in 1..Len(lm) : Satisfies(id, lm[i])

HasNamespaceEq(lm) ==
    \E i \in 1..Len(lm) : lm[i].Name = NamespaceLabel /\ lm[i].Type = "=" /\ lm[i].Value # <<>>

\* The identities with a stored lifetime, in some partition, overlapping [from, to].
StoredOverlapping(from, to) ==
    {id \in {IdentityOf(m) : m \in Metrics} :
        \E s \in Suffixes : \E r \in db[s].rows :
            RowIdentity(r) = id /\ r.from_timestamp <= to /\ r.to_timestamp >= from}

\* The identities of the last query's result.
Returned == {IdentityOf(query.result[k]) : k \in DOMAIN query.result}

\* The last call was a query with limit 0, an empty seed and a Namespace
\* equality matcher.
PlainQuery ==
    /\ query.op = "QueryMetrics"
    /\ query.limit = 0
    /\ query.seed = <<>>
    /\ query.fail.kind = "none"
    /\ HasNamespaceEq(query.lm)

\* C4 (Query soundness Q): on every store reached by RecordMetric calls, a
\* query over a window [from, to] of more than one instant with a Namespace
\* equality matcher (limit 0, empty seed) returns exactly the identities that
\* have a stored lifetime overlapping [from, to] in some partition and satisfy
\* every matcher, one entry per unique key.
QuerySoundness ==
    (PlainQuery /\ query.from < query.to)
        => /\ query.err = "nil"
           /\ Returned = {id \in StoredOverlapping(query.from, query.to) :
                             SatisfiesAll(id, query.lm)}
           /\ Cardinality(DOMAIN query.result) = Cardinality(Returned)

\* C8: a query whose window is a single instant (from = to) succeeds and
\* returns exactly the matching identities whose stored lifetime holds that
\* instant.
PointWindowQuery ==
    (PlainQuery /\ query.from = query.to)
        => /\ query.err = "nil"
           /\ Returned = {id \in StoredOverlapping(query.from, query.from) :
                             SatisfiesAll(id, query.lm)}

\* The rows stored for an identity, in every partition.
RowsOf(id) == UNION {{r \in db[s].rows : RowIdentity(r) = id} : s \in Suffixes}

LeastOf(S) == CHOOSE x \in S : \A y \in S : x <= y
GreatestOf(S) == CHOOSE x \in S : \A y \in S : x >= y

\* C9: overlap is tested on closed intervals: for an identity stored with
\* lifetime [A, B], a query window (of more than one instant) that ends
\* exactly at A or starts exactly at B returns the identity; one that ends at
\* A - 1 or starts at B + 1 does not.
ClosedIntervalOverlap ==
    (PlainQuery /\ query.from < query.to)
        => \A id \in {IdentityOf(m) : m \in Metrics} :
              (RowsOf(id) # {} /\ SatisfiesAll(id, query.lm)) =>
                 LET A == LeastOf({r.from_timestamp : r \in RowsOf(id)})
                     B == GreatestOf({r.to_timestamp : r \in RowsOf(id)})
                 IN  /\ (query.to = A \/ query.from = B)
                            => (query.err = "nil" /\ id \in Returned)
                     /\ (query.to = A - 1 \/ query.from = B + 1)
                            => id \notin Returned

\* The lifetimes the last query read for a unique key: those of the rows
\* that overlap a sub-range of the window in the partition of that sub-range.
FoundLifetimes(k) ==
    LET trs == getLifetimeRanges(query.from, query.to) IN
    UNION {{[From |-> r.from_timestamp, To |-> r.to_timestamp] :
               r \in {x \in db[getTableSuffix(trs[i].From)].rows :
                         /\ UniqueKey(ScanRow(x)) = k
                         /\ SatisfiesAll(RowIdentity(x), query.lm)
                         /\ x.from_timestamp <= trs[i].To
                         /\ x.to_timestamp >= trs[i].From}} :
           i \in 1..Len(trs)}

\* The lifetimes merged under a key: those read, and the seed's.
MergedLifetimes(k) ==
    FoundLifetimes(k) \cup
    (IF k \in DOMAIN query.seed
     THEN {[From |-> query.seed[k].FromTS, To |-> query.seed[k].ToTS]} ELSE {})

\* Every key of the result stands once, with the union of what was merged.
MergedOnce ==
    /\ \A k1, k2 \in DOMAIN query.result :
          IdentityOf(query.result[k1]) = IdentityOf(query.result[k2]) => k1 = k2
    /\ \A k \in DOMAIN query.result :
          /\ MergedLifetimes(k) # {}
          /\ query.result[k].FromTS = LeastOf({e.From : e \in MergedLifetimes(k)})
          /\ query.result[k].ToTS = GreatestOf({e.To : e \in MergedLifetimes(k)})

\* The last RecordMetric succeeded with a lifetime [a, b] in several
\* partitions, nothing else is stored for its identity, and the query asks
\* for [a, b] with matchers the identity satisfies.
RecordedThenQueried ==
    /\ last.op = "RecordMetric" /\ last.err = "nil"
    /\ getTableSuffix(last.metric.FromTS) # getTableSuffix(last.metric.ToTS)
    /\ \A r \in RowsOf(IdentityOf(last.metric)) :
          last.metric.FromTS <= r.from_timestamp /\ r.to_timestamp <= last.metric.ToTS
    /\ query.op = "QueryMetrics" /\ query.err = "nil"
    /\ query.from = last.metric.FromTS /\ query.to = last.metric.ToTS
    /\ SatisfiesAll(IdentityOf(last.metric), query.lm)

\* The result holds the recorded identity once, with lifetime exactly [a, b].
ExactLifetime ==
    LET k == UniqueKey(last.metric) IN
    /\ k \in DOMAIN query.result
    /\ query.result[k].FromTS = last.metric.FromTS
    /\ query.result[k].ToTS = last.metric.ToTS
    /\ \A k2 \in DOMAIN query.result :
          IdentityOf(query.result[k2]) = IdentityOf(last.metric) => k2 = k

-----------------------------------------------------------------------------
(* Properties of matcher compilation, error containment and the limit. *)

MissingNamespace == "namespace label matcher is required"

\* The list holds exactly one matcher named Namespace, and that one has the
\* operator Eq and a non-empty value.
ExactlyOneNamespaceEq(lm) ==
    LET ns == {i \in 1..Len(lm) : lm[i].Name = NamespaceLabel} IN
    /\ Cardinality(ns) = 1
    /\ \A i \in ns : lm[i].Type = "=" /\ lm[i].Value # <<>>

\* C11: a query (over a window of more than one instant) whose matcher list
\* does not hold exactly one Namespace matcher, with operator Eq and a
\* non-empty value, is rejected with MissingNamespace and asks for no
\* partition.
NamespaceRequired ==
    (query.op = "QueryMetrics" /\ query.from < query.to /\ ~ExactlyOneNamespaceEq(query.lm))
        => (query.err = MissingNamespace /\ query.visited = <<>>)

\* The sub-ranges of the last query's window.
QueryRanges == getLifetimeRanges(query.from, query.to)

\* The last query compiled its matchers and split its window.
QueryRan == query.op = "QueryMetrics" /\ query.err \in {"nil", "error"}

\* The store failed during the last query: at the SELECT, or while the rows
\* of a partition that has its tables were read.
StoreFailed ==
    /\ query.fail.kind # "none"
    /\ query.fail.kind = "rows" =>
          LET tr == QueryRanges[query.fail.at] IN
          ~NoSuchTable(db[getTableSuffix(tr.From)],
                       getLifetimeTableSuffix(tr.From, LastNamespace(query.lm, <<>>)))

\* C13: a partition without tables counts as empty and the query goes on to
\* the remaining partitions; any other failure in a partition stops the query
\* at that partition and is returned.
ErrorContainment ==
    (QueryRan /\ query.limit = 0)
        => IF StoreFailed
           THEN query.err = "error" /\ Len(query.visited) = query.fail.at
           ELSE query.err = "nil" /\ Len(query.visited) = Len(QueryRanges)

\* C14: the scan stops before the last partition only if limit > 0 and the
\* result holds at least limit entries; with limit > 0 it stops at the first
\* partition read once the result holds limit entries; with limit <= 0 every
\* partition of the window is asked for.
LimitTermination ==
    (QueryRan /\ query.err = "nil" /\ query.fail.kind = "none")
        => /\ Len(query.visited) < Len(QueryRanges)
                => (query.limit > 0 /\ Cardinality(DOMAIN query.result) >= query.limit)
           /\ (query.limit > 0 /\ Cardinality(DOMAIN query.seed) >= query.limit
                 /\ ~NoSuchTable(db[getTableSuffix(query.from)],
                                 getLifetimeTableSuffix(query.from, LastNamespace(query.lm, <<>>))))
                => Len(query.visited) = 1
           /\ query.limit <= 0 => Len(query.visited) = Len(QueryRanges)

-----------------------------------------------------------------------------
(* Properties of the handle cache. *)

\* C19: every get stamps the handle of its partition with the clock, and a
\* CleanupUnusedDB whose closes succeed removes the handles last fetched more
\* than IdleTimeout ago and keeps, open and cached, every handle fetched
\* within IdleTimeout.
IdleEvictionExact ==
    [][/\ \A s \in Suffixes :
             (DbPath(s) \in dbs' /\ DbPath(s) \notin dbs) => lastUsed'[s] = now
       /\ (house' # house /\ house'.closeFails = {})
             => \A s \in Suffixes :
                   DbPath(s) \in dbs =>
                      /\ lastUsed[s] + IdleTimeout > now => DbPath(s) \in dbs'
                      /\ lastUsed[s] + IdleTimeout < now => DbPath(s) \notin dbs']_vars

-----------------------------------------------------------------------------
(* Properties of the transactions of a write. *)

\* The file holds what a write of the sub-range tr commits for the identity:
\* its row, covering tr, with its lifetime entry.
Committed(file, id, tr) ==
    \E r \in file.rows :
        /\ RowIdentity(r) = id
        /\ r.from_timestamp <= tr.From /\ r.to_timestamp >= tr.To
        /\ \E l \in file.lifetime :
              /\ l.metric_id = r.metric_id
              /\ l.from_timestamp = r.from_timestamp
              /\ l.to_timestamp = r.to_timestamp

\* C20: a RecordMetric over the sub-ranges 1..n either commits all of them
\* and returns nil, or returns the error of some sub-range k, and then the
\* partitions of the sub-ranges before k hold the committed write, the
\* partition of k is as it was before the call (no row, no lifetime entry, no
\* table added), and the later partitions and all others are untouched.
PerPartitionTransactions ==
    [][(RecordStep /\ last'.err \in {"nil", "error"})
        => LET m == last'.metric
               id == IdentityOf(m)
               trs == getLifetimeRanges(m.FromTS, m.ToTS)
               n == Len(trs)
               k0 == IF last'.err = "nil" THEN {n + 1} ELSE 1..n
           IN  \E k \in k0 :
                  /\ \A i \in 1..(k - 1) :
                        Committed(db'[getTableSuffix(trs[i].From)], id, trs[i])
                  /\ \A i \in k..n :
                        db'[getTableSuffix(trs[i].From)] = db[getTableSuffix(trs[i].From)]
                  /\ \A s \in Suffixes :
                        s \notin {getTableSuffix(trs[i].From) : i \in 1..n} => db'[s] = db[s]]_vars

\* C20's case: the first write to a store failed in its second partition
\* after it had committed the first.
WitnessPartialWrite ==
    /\ nOps = 1 /\ last.op = "RecordMetric" /\ last.err = "error"
    /\ LET trs == getLifetimeRanges(last.metric.FromTS, last.metric.ToTS) IN
       /\ Len(trs) >= 2
       /\ HasRow(db[getTableSuffix(trs[1].From)], IdentityOf(last.metric))
       /\ db[getTableSuffix(trs[2].From)] = EmptyFile

-----------------------------------------------------------------------------
(* Properties of the HTTP boundary. *)

\* C12: a request whose query fails for a missing Namespace matcher is
\* answered 400, and one whose query fails otherwise is answered 500.
SeriesErrorStatus ==
    resp.op = "seriesHandler" =>
        /\ resp.err = MissingNamespace => resp.status = StatusBadRequest
        /\ resp.err = "error" => resp.status = StatusInternalServerError

-----------------------------------------------------------------------------
(* Properties of the recorder. *)

\* The attempts made for the identities dequeued so far: those of the
\* identities done with, and those of the one being recorded.
AttemptsMade ==
    {handled[k].attempts : k \in 1..Len(handled)} \cup {recorder.attempts}

\* C16: for each dequeued identity the recorder calls RecordMetric at most
\* MaxRetry times, and no call follows one that returned nil.
BoundedRetry ==
    \A a \in AttemptsMade :
        /\ Len(a) <= MaxRetry
        /\ \A j \in 1..(Len(a) - 1) : a[j] # "nil"

\* C16's case: an identity was given up after MaxRetry failed calls, and
\* another was recorded by a call that followed a failed one.
WitnessBoundedRetry ==
    /\ \E k \in 1..Len(handled) :
          Len(handled[k].attempts) = MaxRetry /\ handled[k].attempts[MaxRetry] # "nil"
    /\ \E k \in 1..Len(handled) :
          LET a == handled[k].attempts IN Len(a) >= 2 /\ a[Len(a)] = "nil"

\* C18: an identity whose end is before its start is passed to RecordMetric
\* exactly once.
InvalidIntervalNotRetried ==
    \A k \in 1..Len(handled) :
        handled[k].metric.ToTS < handled[k].metric.FromTS => Len(handled[k].attempts) = 1

\* Every identity sent was dequeued and passed to RecordMetric, in order.
HandledAll ==
    /\ Len(handled) = Len(sent)
    /\ \A k \in 1..Len(sent) : handled[k].metric = sent[k] /\ Len(handled[k].attempts) >= 1

Dropped(k) ==
    /\ Len(handled) >= k
    /\ Len(handled[k].attempts) = MaxRetry
    /\ \A j \in 1..MaxRetry : handled[k].attempts[j] # "nil"

-----------------------------------------------------------------------------
(* Properties of the schema memo and of the lifetime index. *)

\* C30: every lifetime-table suffix held by the schema memo names tables
\* that exist in the committed partition file: the identity table of the
\* suffix's partition and the lifetime table of the suffix.
SchemaMemoSound ==
    \A ls \in initialized :
        db[ls[1]].metrics /\ ls \in db[ls[1]].ltables

\* The entries of the lifetime table of row r's namespace, in the partition
\* file of suffix s, that carry r's metric_id.
LifetimeEntries(s, r) ==
    {l \in db[s].lifetime : /\ l.table = getLifetimeTableSuffix(s[1], r.namespace)
                            /\ l.metric_id = r.metric_id}

\* C29: in every partition file, each row of the identity table has exactly
\* one entry in its namespace's lifetime table with the row's metric_id, and
\* that entry has the row's from_timestamp and to_timestamp; and every entry
\* of a lifetime table belongs to a row of the identity table in this way.
LifetimeMirror ==
    \A s \in Suffixes :
        /\ \A r \in db[s].rows :
              /\ Cardinality(LifetimeEntries(s, r)) = 1
              /\ \A l \in LifetimeEntries(s, r) :
                    /\ l.from_timestamp = r.from_timestamp
                    /\ l.to_timestamp = r.to_timestamp
        /\ \A l \in db[s].lifetime : \E r \in db[s].rows : l \in LifetimeEntries(s, r)

\* C29's case: the second write to a store found the identity's row and
\* widened it, so that the row covers more than the call's own interval.
WitnessLifetimeMirror ==
    /\ nOps = 2 /\ last.op = "RecordMetric" /\ last.err = "nil"
    /\ \E s \in Suffixes : \E r \in db[s].rows :
          /\ RowIdentity(r) = IdentityOf(last.metric)
          /\ r.from_timestamp < last.metric.FromTS
          /\ r.from_timestamp < r.to_timestamp
          /\ LifetimeEntries(s, r) # {}

-----------------------------------------------------------------------------
(* RecordMetric as an upsert. *)

\* The rows and ranges of a store, updated_at aside.
Bare(d) ==
    [s \in Suffixes |->
        [rows |-> {[r EXCEPT !.updated_at = 0] : r \in d[s].rows},
         lifetime |-> d[s].lifetime]]

\* A store just opened, and a call during which nothing fails.
NewStore ==
    [db |-> [s \in Suffixes |-> EmptyFile], dbs |-> {}, lastUsed |-> <<>>,
     initialized |-> {}, written |-> <<>>, clock |-> 0, reissued |-> {}]

Unfailing == [at |-> 0, kind |-> "none"]

\* What one successful call, and two in a row, leave in a new store.
Once(m) == RecordMetricResult(NewStore, m, Unfailing).S.db

Twice(m1, m2) ==
    RecordMetricResult(RecordMetricResult(NewStore, m1, Unfailing).S, m2, Unfailing).S.db

\* C28: a successful RecordMetric that repeats the successful call before it
\* leaves the rows and ranges as they were; the second of two successful
\* calls for one identity on a new store leaves the rows and ranges that the
\* two calls leave in the other order; and a successful call that repeats a
\* call which failed on a new store after committing some partitions leaves
\* the rows and ranges of a single successful call (updated_at aside).
UpsertLaws ==
    [][(RecordStep /\ last.op = "RecordMetric" /\ last'.err = "nil")
        => /\ (last.err = "nil" /\ last'.metric = last.metric)
                => Bare(db') = Bare(db)
           /\ (nOps = 1 /\ last.err = "nil"
                 /\ IdentityOf(last'.metric) = IdentityOf(last.metric))
                => Bare(db') = Bare(Twice(last'.metric, last.metric))
           /\ (nOps = 1 /\ last.outcome = "partial" /\ last'.metric = last.metric)
                => Bare(db') = Bare(Once(last.metric))]_vars

\* C28's case: a call failed after it had committed its first partition, and
\* the same call, made again, succeeded and wrote both partitions.
WitnessRetry ==
    /\ nOps = 2 /\ last.op = "RecordMetric" /\ last.err = "nil" /\ last.before = "partial"
    /\ Cardinality({s \in Suffixes : db[s].rows # {}}) >= 2

-----------------------------------------------------------------------------
(* Normalisation of the dimensions. *)

\* The name/value pairs of a dimension list, the one named "__name__" aside.
DimSet(ds) == {ds[i] : i \in {j \in 1..Len(ds) : ds[j].Name # NameLabel}}

\* Two metrics that differ in the order of their dimensions or in a
\* dimension named "__name__", and in nothing else of their identity.
DifferInDimensionForm(m1, m2) ==
    /\ m1.Namespace = m2.Namespace
    /\ m1.MetricName = m2.MetricName
    /\ m1.Region = m2.Region
    /\ DimSet(m1.Dimensions) = DimSet(m2.Dimensions)
    /\ m1.Dimensions # m2.Dimensions

\* The rows of a file under a metric's namespace, name and region.
RowsNamed(file, m) ==
    {r \in file.rows : /\ r.namespace = m.Namespace
                       /\ r.metric_name = m.MetricName
                       /\ r.region = m.Region}

\* C21: when a successful RecordMetric follows a successful one for a metric
\* that differs from its own only in the order of the dimensions or in a
\* dimension named "__name__", the two dimension lists serialise to the same
\* text, and in every partition the second call wrote it updated the row the
\* first had written: no row is added where one was, and the row covers the
\* second call's sub-range.
DimensionNormalization ==
    [][(RecordStep /\ last.op = "RecordMetric" /\ last.err = "nil" /\ last'.err = "nil"
          /\ DifferInDimensionForm(last.metric, last'.metric))
        => /\ MarshalJSON(last.metric.Dimensions) = MarshalJSON(last'.metric.Dimensions)
           /\ LET trs == getLifetimeRanges(last'.metric.FromTS, last'.metric.ToTS) IN
              \A i \in 1..Len(trs) :
                 LET s == getTableSuffix(trs[i].From) IN
                 RowsNamed(db[s], last.metric) # {}
                    => /\ {r.metric_id : r \in db'[s].rows} = {r.metric_id : r \in db[s].rows}
                       /\ \A r \in RowsNamed(db'[s], last.metric) :
                             /\ r.from_timestamp <= trs[i].From
                             /\ r.to_timestamp >= trs[i].To]_vars

\* C21's case: two successful calls, the second with the dimensions in
\* another order or with a dimension named "__name__" and a shorter
\* lifetime, left one row in the partition both wrote.
WitnessNormalization ==
    /\ family = "wide" /\ nOps = 2 /\ last.op = "RecordMetric" /\ last.err = "nil"
    /\ last.metric.Dimensions # SortByName(DropNameLabel(last.metric.Dimensions))
    /\ last.metric.ToTS = 1
    /\ Cardinality(db[getTableSuffix(0)].rows) = 1
    /\ Cardinality(db[getTableSuffix(4)].rows) = 1

-----------------------------------------------------------------------------
(* Properties of the label matchers. *)

\* What the query of the state returns when its matcher list is lm.
ResultFor(lm) ==
    QueryMetricsResult(Store, query.from, query.to, lm, query.limit, query.seed,
                       WideOrder, query.fail)

\* The result of the query's Namespace matcher alone.
Baseline == ResultFor(<<query.lm[1]>>).result

\* What an operator says of a text and the matcher's value.
Compares(x, t, v) ==
    CASE t = "=" -> x = v
      [] t = "!=" -> x # v
      [] t = "=~" -> RegexpMatch(x, v)
      [] t = "!~" -> ~RegexpMatch(x, v)

\* The query has, after its Namespace matcher, one matcher named by one of names.
SecondMatcherNamed(names) ==
    /\ query.op = "QueryMetrics"
    /\ Len(query.lm) = 2
    /\ query.lm[1].Name = NamespaceLabel
    /\ query.lm[2].Name \in names

\* The matcher list of the query with the other of "__name__" and "MetricName".
OtherName ==
    [query.lm EXCEPT ![2].Name = IF @ = NameLabel THEN MetricNameLabel ELSE NameLabel]

\* C25: a query with a matcher on "__name__" returns what the same query
\* with the matcher on "MetricName" returns, and the other way round; and it
\* returns, of the identities its Namespace matcher alone returns, exactly
\* those whose stored metric name the operator and value accept.
NameMatchersAgree ==
    SecondMatcherNamed({NameLabel, MetricNameLabel}) =>
        /\ query.err = ResultFor(OtherName).err
        /\ query.result = ResultFor(OtherName).result
        /\ query.result =
              [k \in {x \in DOMAIN Baseline :
                         Compares(Baseline[x].MetricName, query.lm[2].Type, query.lm[2].Value)}
                 |-> Baseline[k]]

\* C25's case: a query for the name "_m" by "__name__" returned the identity
\* stored under "_m" and not the one stored under "/m", whose safe name is "_m".
WitnessNameMatchers ==
    /\ SecondMatcherNamed({NameLabel})
    /\ query.lm[2].Type = "=" /\ query.lm[2].Value = Text_M
    /\ query.result # <<>>
    /\ \E k \in DOMAIN Baseline : Baseline[k].MetricName = TextSlashM

\* The value of the dimension named n in a metric, the empty text when the
\* metric has no such dimension.
DimOf(m, n) ==
    LET hit == {i \in 1..Len(m.Dimensions) : m.Dimensions[i].Name = n} IN
    IF hit = {} THEN <<>> ELSE m.Dimensions[CHOOSE i \in hit : TRUE].Value

\* C26: a query with a matcher on the dimension d returns, of the identities
\* its Namespace matcher alone returns, exactly those whose dimension d, or
\* the empty text when they have none, the operator and value accept: for
\* d != "" those that carry d with a value that is not empty, for d = ""
\* those that lack d or carry it empty.
DimensionMatcher ==
    SecondMatcherNamed({TextD}) =>
        /\ query.err = "nil"
        /\ query.result =
              [k \in {x \in DOMAIN Baseline :
                         Compares(DimOf(Baseline[x], TextD), query.lm[2].Type, query.lm[2].Value)}
                 |-> Baseline[k]]

\* C26's case: a query d = "" over a store that holds an identity with
\* d = "v", one with d = "" and one without d returned the last two.
WitnessDimensionMatcher ==
    /\ SecondMatcherNamed({TextD})
    /\ query.lm[2].Type = "=" /\ query.lm[2].Value = <<>>
    /\ Cardinality(DOMAIN query.result) = 2
    /\ Cardinality(DOMAIN Baseline) = 3
    /\ \E k \in DOMAIN query.result : query.result[k].Dimensions = <<>>
    /\ \E k \in DOMAIN query.result : query.result[k].Dimensions = <<Dim(TextD, <<>>)>>

-----------------------------------------------------------------------------
(* Namespaces that share a lifetime table. *)

\* The query has one matcher, Namespace = n.
NamespaceQuery(n) ==
    /\ query.op = "QueryMetrics"
    /\ query.lm = <<Matcher(NamespaceLabel, "=", n)>>

\* The identity of a returned metric.
ResultIdentity(m) ==
    [Namespace |-> m.Namespace, MetricName |-> m.MetricName, Region |-> m.Region,
     Dimensions |-> m.Dimensions]

\* C27: a query for a namespace returns identities of that namespace alone,
\* also when another namespace shares its lifetime table; the query for a
\* namespace with "/" over the lifetime an identity was last recorded with
\* returns that identity with that lifetime; and every row keeps one entry of
\* its own in the shared lifetime table, whose range is that of the sub-ranges
\* written for the row's identity.
NamespaceRoundTrip ==
    /\ \A n \in {TextAB, TextA_B} :
          NamespaceQuery(n) =>
             /\ query.err = "nil"
             /\ \A k \in DOMAIN query.result : query.result[k].Namespace = n
    /\ (/\ NamespaceQuery(TextAB)
        /\ last.op = "RecordMetric" /\ last.err = "nil"
        /\ last.metric.Namespace = TextAB
        /\ query.from = last.metric.FromTS /\ query.to = last.metric.ToTS)
          => \E k \in DOMAIN query.result :
                /\ ResultIdentity(query.result[k]) = IdentityOf(last.metric)
                /\ query.result[k].FromTS = query.from
                /\ query.result[k].ToTS = query.to
    /\ \A s \in Suffixes : \A r \in db[s].rows :
          /\ <<s, RowIdentity(r)>> \in DOMAIN written
          /\ \A l \in LifetimeEntries(s, r) :
                /\ l.from_timestamp = written[<<s, RowIdentity(r)>>].From
                /\ l.to_timestamp = written[<<s, RowIdentity(r)>>].To
          /\ Cardinality(LifetimeEntries(s, r)) = 1

\* C27's case: the namespaces "a/b" and "a_b" both hold an identity, with
\* entries of their own in the lifetime table they share, "a_b" in a second
\* partition as well, and the query for "a/b" over the lifetime last recorded
\* returned the identity of "a/b" alone.
WitnessNamespaceRoundTrip ==
    /\ NamespaceQuery(TextAB)
    /\ last.op = "RecordMetric" /\ last.metric.Namespace = TextAB
    /\ query.from = last.metric.FromTS /\ query.to = last.metric.ToTS
    /\ Cardinality(DOMAIN query.result) = 1
    /\ \E r1, r2 \in db[getTableSuffix(0)].rows :
          /\ r1.namespace = TextAB /\ r2.namespace = TextA_B
          /\ LifetimeEntries(getTableSuffix(0), r1) # LifetimeEntries(getTableSuffix(0), r2)
          /\ \A l1 \in LifetimeEntries(getTableSuffix(0), r1) :
             \A l2 \in LifetimeEntries(getTableSuffix(0), r2) : l1.table = l2.table
    /\ \E r \in db[getTableSuffix(4)].rows : r.namespace = TextA_B
    /\ \A r \in db[getTableSuffix(4)].rows : r.namespace = TextA_B

-----------------------------------------------------------------------------
(* Properties of the methods of model.Metric. *)

\* Two metrics of one identity: the same namespace, metric name, region and
\* set of dimension name/value pairs.
SameIdentity(a, b) ==
    /\ a.Namespace = b.Namespace
    /\ a.MetricName = b.MetricName
    /\ a.Region = b.Region
    /\ {a.Dimensions[i] : i \in 1..Len(a.Dimensions)}
          = {b.Dimensions[i] : i \in 1..Len(b.Dimensions)}

\* C22: the unique keys of two metrics are equal if and only if the metrics
\* have the same namespace, metric name, region and set of dimension
\* name/value pairs, whatever their dimension order, metric_id, partition
\* and lifetime.
UniqueKeyIdentifies ==
    calc.op = "UniqueKey" => (calc.keyA = calc.keyB <=> SameIdentity(calc.a, calc.b))

\* C23: Labels() maps "__name__" to the safe metric name, "MetricName" to the
\* metric name as stored, "Namespace" to the namespace, "Region" to the
\* region, and every dimension name to the dimension's value.
LabelShaping ==
    calc.op = "Labels" =>
        /\ calc.labels[NameLabel] = safeMetricName(calc.a.MetricName)
        /\ calc.labels[MetricNameLabel] = calc.a.MetricName
        /\ calc.labels[NamespaceLabel] = calc.a.Namespace
        /\ calc.labels[RegionLabel] = calc.a.Region
        /\ \A i \in 1..Len(calc.a.Dimensions) :
              calc.labels[calc.a.Dimensions[i].Name] = calc.a.Dimensions[i].Value

\* C24: what safeMetricName returns is left as it is by safeMetricName, holds
\* only characters of [A-Za-z0-9_:], and does not start with a digit.
SafeMetricNameIdempotent ==
    calc.op = "safeMetricName" =>
        /\ calc.again = calc.safe
        /\ \A i \in 1..Len(calc.safe) : calc.safe[i] \in NameCharacters
        /\ Len(calc.safe) > 0 => calc.safe[1] \notin Digits

\* C24's case: a name that starts with a digit and holds a character outside
\* the class was made safe.
WitnessSafeMetricName ==
    /\ calc.op = "safeMetricName"
    /\ calc.name = <<"0", "-", "a">>
    /\ calc.safe = <<"_", "_", "a">>

-----------------------------------------------------------------------------
(* Properties of a query that fails. *)

\* C36: a QueryMetrics that returns an error hands back the mapping it was
\* given: no entry added and none widened by the call.
PartialResultsDiscarded ==
    (query.op = "QueryMetrics" /\ query.err # "nil") => query.result = query.seed

-----------------------------------------------------------------------------
(* Properties of the idle cleanup when a Close fails. *)

\* C34: a CleanupUnusedDB removes from the cache every idle handle it tried
\* to close, also the handles whose Close returned an error.
FailedCloseStillRemoved ==
    [][(house.op = "none" /\ house'.op = "CleanupUnusedDB")
        => \A key \in house'.closeFails :
              ~(LastUsedAt(Store, key) + IdleTimeout > now) => key \notin dbs']_vars

-----------------------------------------------------------------------------
(* The schema initialisation, repeated. *)

\* The lifetime tables that exist, each with the identity table of its file.
ExistingTables == UNION {db[s].ltables : s \in Suffixes}

\* C31: a successful RecordMetric leaves the files as the same call leaves
\* them on a store whose memo holds every table that exists, so that no DDL
\* is issued for an existing table: whether or not init re-issues the DDL for
\* existing tables, no table and no row changes by it.  And no call removes
\* a table.
IdempotentDDL ==
    [][RecordStep
        => /\ \A s \in Suffixes : /\ db[s].metrics => db'[s].metrics
                                  /\ db[s].ltables \subseteq db'[s].ltables
           /\ last'.err = "nil"
                => db' = RecordMetricResult([Store EXCEPT !.initialized = ExistingTables],
                                            last'.metric, Unfailing).S.db]_vars

\* C31's case: a successful call whose init issued the DDL again for tables
\* that existed and held rows, their memo entry having been evicted.
WitnessReissuedDDL ==
    /\ last.op = "RecordMetric" /\ last.err = "nil" /\ last.reissued # {}
    /\ \E ls \in last.reissued :
          \E s \in Suffixes : ls \in db[s].ltables /\ Cardinality(db[s].rows) >= 2

-----------------------------------------------------------------------------
(* Marshalling the dimensions and back. *)

\* C37: UnmarshalJSON of what MarshalJSON returned for a list of dimensions
\* of distinct names succeeds and yields the pairs of the list, the one named
\* "__name__" aside.
MarshalRoundTrip ==
    calc.op = "MarshalJSON"
        => calc.back.err = "nil" /\ calc.back.ds = DimSet(calc.ds)

-----------------------------------------------------------------------------
(* The order of the recorder's writes. *)

\* The identities the goroutine of Run has taken off the queue, in the order
\* it took them: those it is done with, then the one it is attempting.
Taken ==
    [k \in 1..Len(handled) |-> handled[k].metric]
        \o (IF recorder.pc \in {"record", "crashed"} THEN <<recorder.metric>> ELSE <<>>)

\* C32: the recorder applies the writes one after the other in the order of
\* arrival: the identities taken off the queue, followed by those waiting in
\* it, are the identities sent, in the order sent; an identity is taken off
\* the queue only when no attempt for the one before is outstanding; and
\* every write to the store is an attempt for the one identity in hand.
SerialWrites ==
    [][/\ Taken' \o metricsCh' = sent'
       /\ Len(Taken') > Len(Taken) => recorder.pc = "select"
       /\ (db' # db \/ written' # written)
             => /\ recorder.pc = "record"
                /\ recorder.metric = sent[Len(handled) + 1]
                /\ Len(Taken') = Len(Taken)]_vars

\* C32's case: two identities were sent, the second while the first was
\* being attempted, the first took more than one attempt, and both were
\* applied.
WitnessSerialWrites ==
    /\ Len(handled) = 2 /\ sent[1] # sent[2]
    /\ Len(handled[1].attempts) > 1
    /\ handled[2].attempts[Len(handled[2].attempts)] = "nil"

-----------------------------------------------------------------------------
(* The checkpoint tick of the recorder. *)

\* C35: on a checkpoint tick the recorder, no write of its own in progress,
\* issues the checkpoint on every handle that is open and then runs the
\* cleanup, also when a checkpoint failed.
CheckpointEveryHandle ==
    [][(house.op = "none" /\ house'.op = "CleanupUnusedDB")
        => /\ recorder.pc = "select"
           /\ house'.wal.issued = dbs
           /\ dbs' = CleanupResult(Store, house'.closeFails).dbs]_vars

-----------------------------------------------------------------------------
(* The handle cache under concurrent use. *)

\* C33: a getDB and a CleanupUnusedDB are never at work on the maps of the
\* handle cache at the same time.
CacheAccessSerialized ==
    ~(task.handler.pc = "lookup" /\ task.cleaner.pc = "scan")

\* C38: the handle a call obtained from getDB is open for as long as the call
\* uses it.
HandleStaysOpen ==
    task.handler.held # {} => task.handler.open

-----------------------------------------------------------------------------
(* Shutdown of the recorder process. *)

\* C39: no scraper sends on the ingest queue once it is closed: when the
\* queue is closed every scraper's goroutine has returned, no send has met a
\* closed queue, and Recorder.Stop is entered only with the queue closed.
NoSendAfterClose ==
    /\ closed => \A id \in Scrapers : scraper.tasks[id].pc = "exited"
    /\ ~scraper.panicked
    /\ stop # "idle" => closed

\* C39's case: both scrapers sent or were stopped, the queue was closed after
\* a metric had gone through it, and stop() has returned.
WitnessNoSendAfterClose ==
    /\ scraper.stopper.pc = "returned" /\ closed
    /\ Len(sent) >= 1 /\ Len(handled) = Len(sent)

\* C40: once its context is cancelled, a scraper's goroutine returns, so
\* that CloudWatchScraper.Stop returns.
ScraperStopTerminates ==
    \A id \in Scrapers :
        scraper.tasks[id].cancelled ~> scraper.tasks[id].pc = "exited"

====
